---- MODULE Spec2Model ----
(***************************************************************************)
(* PybricksPilot (app/assets/pybrickspilot.py): the command channel, the   *)
(* command dispatcher, the telemetry gate, the hub menu state machine and  *)
(* the background task, as a state machine over the module's globals.      *)
(*                                                                         *)
(* Text is modelled at the level of bytes.  The text of one JSON value is  *)
(* two bytes: JO(v), everything up to its closing bracket, and JC, the     *)
(* closing bracket; NL is "\n", SP a blank, JUNK a byte that belongs to no *)
(* JSON text.  A coroutine runs from one await to the next in one step.    *)
(***************************************************************************)
EXTENDS Integers, Sequences, FiniteSets, TLC

\* ------------------------------------------------------------------ bounds
MaxSeq == 3          \* commands in one command sequence of the input
MaxLines == 2        \* lines in one input stream of single commands
TickMs == 50         \* the step of the stopwatch
MaxRecords == 2      \* telemetry records printed in one run
MaxAngle == 540      \* the largest start or end angle of an arc, and gyro reading
AngleStep == 180     \* the step between two gyro readings
MaxPad == 48         \* blanks between two lines of a long input stream
MaxTime == 350       \* the clock stops being advanced here
MaxButtonTime == 950 \* and here where only the buttons are followed
MaxTurns == 1        \* calls of turn_to_heading in one run
MaxText == 25        \* bytes in the text of one run_selected command

\* ------------------------------------------------------- program constants
max_bytes_per_call == 50
_menu_button_debounce_ms == 300
MenuWaitMs == 50
MinIntervalMs == 50
DefaultIntervalMs == 100
DefaultSpeed == 100
DefaultRadius == 100
DefaultTurnRate == 90

\* ---------------------------------------------------------------- values
None == <<>>

\* A parsed JSON value: a dict (a record of the fields present), a list of
\* values, or a scalar.
Obj(d) == [t |-> "dict", d |-> d]
Lst(l) == [t |-> "list", l |-> l]
Num == [t |-> "num"]
Str == [t |-> "str"]
Null == [t |-> "null"]

\* dict.get(f, default)
Get(d, f, default) == IF f \in DOMAIN d THEN d[f] ELSE default

\* dict.get(f) is not None
Has(d, f) == f \in DOMAIN d

\* cmd.copy() followed by cmd[f] = x
With(d, f, x) == [g \in DOMAIN d \cup {f} |-> IF g = f THEN x ELSE d[g]]

\* ----------------------------------------------------------------- bytes
NL == [k |-> "nl", v |-> Null]
SP == [k |-> "sp", v |-> Null]
JUNK == [k |-> "junk", v |-> Null]
JC == [k |-> "jclose", v |-> Null]
JO(v) == [k |-> "jopen", v |-> v]

\* On the input, the place where read_input_byte() raises.
ERR == [k |-> "err", v |-> Null]

\* str.split("\n") of the buffer: the pieces between newlines, the last one
\* being what follows the last newline.
RECURSIVE SplitAcc(_, _, _)
SplitAcc(s, cur, acc) ==
    IF s = <<>> THEN Append(acc, cur)
    ELSE IF Head(s).k = "nl" THEN SplitAcc(Tail(s), <<>>, Append(acc, cur))
    ELSE SplitAcc(Tail(s), Append(cur, Head(s)), acc)

Split(s) == SplitAcc(s, <<>>, <<>>)

\* str.strip(): leading and trailing blanks removed.
RECURSIVE LStrip(_)
LStrip(s) == IF s # <<>> /\ Head(s).k = "sp" THEN LStrip(Tail(s)) ELSE s

RECURSIVE RStrip(_)
RStrip(s) ==
    IF s # <<>> /\ s[Len(s)].k = "sp" THEN RStrip(SubSeq(s, 1, Len(s) - 1)) ELSE s

\* As Strip, for leading blanks only.
StripLeading(s) == LStrip(s)

Strip(s) == RStrip(LStrip(s))

\* json.loads(text): blanks between tokens are skipped; the text is one JSON
\* value exactly when what is left is an opening part and its closing bracket.
NoBlanks(s) == SelectSeq(s, LAMBDA b : b.k # "sp")

ParseLine(text) ==
    LET t == NoBlanks(text)
    IN  IF Len(t) = 2 /\ t[1].k = "jopen" /\ t[2].k = "jclose"
        THEN [ok |-> TRUE, v |-> t[1].v]
        ELSE [ok |-> FALSE, v |-> Null]

\* ----------------------------------------------------------------- state
VARIABLES
    _hub,                      \* a hub is registered
    _drivebase,                \* a drivebase is registered
    drivebase_has_arc,         \* hasattr(_drivebase, "arc")
    _motors,                   \* the names of the registered motors
    _sensors,                  \* the number of registered sensors
    faults,                    \* the reads of the devices that raise
    _gyro_sensor,              \* the kind of gyro registered, or "none"
    _pseudo_heading_reference,
    gyro_angle,                \* what the gyro reads
    relative_heading,          \* the last call of get_relative_heading
    turning,                   \* the locals of the call of turn_to_heading
    _telemetry_enabled,
    _telemetry_interval_ms,
    _last_telemetry_time,
    _command_buffer,
    _menu_programs,
    _menu_current_index,
    _menu_active,
    _menu_state,
    _menu_last_button_time,
    _menu_run_requested,
    now,                       \* get_time_ms()
    stream,                    \* input bytes that have not arrived yet
    inq,                       \* bytes read_input_byte() can deliver
    consumed,                  \* every byte read so far
    hw,                        \* the hardware calls made, in order
    dispatched,                \* the lines handed to _process_command_line
    display,                   \* the number on the hub display
    light,                     \* the colour of the hub light
    status,                    \* the last MENU_STATUS line printed
    signal,                    \* the last position signal printed
    launched,                  \* the menu programs started, in order
    emitted,                   \* the telemetry records printed, in order
    script,                    \* what the user's program does
    pc,                        \* where the main task is
    frame,                     \* the locals of its call of process_commands
    peer,                      \* a second task that polls: its place and locals
    tel,                       \* the tasks that call send_telemetry
    run                        \* the locals of the current menu program run

vars == << _hub, _drivebase, drivebase_has_arc, _motors, _sensors, faults,
           _gyro_sensor, _pseudo_heading_reference, gyro_angle,
           relative_heading, turning, _telemetry_enabled,
           _telemetry_interval_ms, _last_telemetry_time, _command_buffer,
           _menu_programs, _menu_current_index, _menu_active, _menu_state,
           _menu_last_button_time, _menu_run_requested, now, stream, inq,
           consumed, hw, dispatched, display, light, status, signal, launched,
           emitted, script, pc, frame, peer, tel, run >>

registryVars == << _hub, _drivebase, drivebase_has_arc, _motors, _sensors,
                  faults >>

menuVars == << _menu_programs, _menu_current_index, _menu_active, _menu_state,
               _menu_last_button_time, _menu_run_requested >>

telemetryVars == << _telemetry_enabled, _telemetry_interval_ms,
                    _last_telemetry_time >>

headingVars == << _gyro_sensor, _pseudo_heading_reference, gyro_angle,
                  relative_heading, turning >>

\* What the spec calls the agent state: registry, telemetry configuration,
\* menu variables, heading reference.
agentVars == << registryVars, telemetryVars, menuVars,
                _pseudo_heading_reference >>

\* ------------------------------------------------------- hardware calls
Call(dev, op, a, b, then) ==
    [dev |-> dev, op |-> op, a |-> a, b |-> b, then |-> then]

\* The inline conversion of a stop_behavior string to a Stop parameter.
StopParam(stop_behavior) ==
    IF stop_behavior = "coast_smart" THEN "COAST_SMART"
    ELSE IF stop_behavior = "coast" THEN "COAST"
    ELSE IF stop_behavior = "brake" THEN "BRAKE"
    ELSE "HOLD"

\* str.lower() on the stop_behavior strings in use.
Lower(s) ==
    CASE s = "COAST" -> "coast"
      [] s = "Brake" -> "brake"
      [] OTHER -> s

\* _resolve_stop_behavior, the conversion the driving helpers use; "" stands
\* for the values that count as false, None and the empty string.
_resolve_stop_behavior(stop_behavior) ==
    LET behavior == Lower(IF stop_behavior = "" THEN "hold"
                          ELSE stop_behavior)
    IN  IF behavior \in {"coast_smart", "smart", "coast-smart"}
        THEN "COAST_SMART"
        ELSE IF behavior = "coast" THEN "COAST"
        ELSE IF behavior = "brake" THEN "BRAKE"
        ELSE "HOLD"

\* The loops of _normalize_heading.
RECURSIVE HeadingUp(_)
HeadingUp(normalized) ==
    IF normalized <= -180 THEN HeadingUp(normalized + 360) ELSE normalized

RECURSIVE HeadingDown(_)
HeadingDown(normalized) ==
    IF normalized > 180 THEN HeadingDown(normalized - 360) ELSE normalized

\* As _normalize_heading, with the first loop left out.
NormalizeDownOnly(angle) ==
    IF angle = None THEN None ELSE << HeadingDown(angle[1]) >>

\* _normalize_heading; an angle is << x >>, or None.
_normalize_heading(angle) ==
    IF angle = None THEN None ELSE << HeadingDown(HeadingUp(angle[1])) >>

\* The sweep of an arc given by its start and end angles.
RECURSIVE SweepDown(_)
SweepDown(angle) == IF angle > 180 THEN SweepDown(angle - 360) ELSE angle

RECURSIVE SweepUp(_)
SweepUp(angle) == IF angle < -180 THEN SweepUp(angle + 360) ELSE angle

ArcSweep(start_angle, end_angle) == SweepUp(SweepDown(end_angle - start_angle))

\* The angle an arc command turns through, or None.
ArcAngle(cmd) ==
    IF Has(cmd, "angle") THEN <<cmd.angle>>
    ELSE IF Has(cmd, "startAngle") /\ Has(cmd, "endAngle")
         THEN <<ArcSweep(cmd.startAngle, cmd.endAngle)>>
    ELSE None

\* command.get("motor") or command.get("port")
MotorName(cmd) ==
    IF Has(cmd, "motor") /\ cmd.motor # "" THEN cmd.motor
    ELSE Get(cmd, "port", "")

\* As HasDrivebase, with the test left out.
HasDrivebaseAlways == TRUE

\* The truth value of _drivebase in the guards of the drivebase commands.
HasDrivebase == _drivebase

DriveCalls(distance, speed, then) ==
    << Call("drivebase", "settings_straight_speed", speed, 0, "-"),
       Call("drivebase", "straight", distance, 0, then) >>

TurnCalls(angle, speed, then) ==
    << Call("drivebase", "settings_turn_rate", speed, 0, "-"),
       Call("drivebase", "turn", angle, 0, then) >>

\* As StopAwaits, with nothing stopped when the motor named is not
\* registered.
StopAwaitsNamedOnly(cmd) ==
    IF Get(cmd, "motor", "") # ""
    THEN IF cmd.motor \in _motors
         THEN << << Call(cmd.motor, "stop", 0, 0, "-") >> >>
         ELSE <<>>
    ELSE IF _drivebase
         THEN << << Call("drivebase", "stop", 0, 0, "-") >> >>
         ELSE <<>>

\* The awaited call of a stop command: the motor named when it is
\* registered, else the drivebase when there is one.
StopAwaits(cmd) ==
    IF Get(cmd, "motor", "") # "" /\ cmd.motor \in _motors
    THEN << << Call(cmd.motor, "stop", 0, 0, "-") >> >>
    ELSE IF _drivebase
         THEN << << Call("drivebase", "stop", 0, 0, "-") >> >>
         ELSE <<>>

\* As TurnAndDriveAwaits, with the drive before the turn.
TurnAndDriveDriveFirst(cmd) ==
    LET stop_behavior == Get(cmd, "stop_behavior", "hold")
        speed == Get(cmd, "speed", DefaultSpeed)
    IN  (IF Get(cmd, "distance", 0) # 0
         THEN << DriveCalls(cmd.distance, speed, StopParam(stop_behavior)) >>
         ELSE <<>>)
        \o
        (IF Get(cmd, "angle", 0) # 0
         THEN << TurnCalls(cmd.angle, speed, "COAST_SMART") >>
         ELSE <<>>)

\* The awaited calls of a turn_and_drive command: the turn when the angle is
\* not 0, then the drive when the distance is not 0.
TurnAndDriveAwaits(cmd) ==
    LET stop_behavior == Get(cmd, "stop_behavior", "hold")
        speed == Get(cmd, "speed", DefaultSpeed)
    IN  (IF Get(cmd, "angle", 0) # 0
         THEN << TurnCalls(cmd.angle, speed, "COAST_SMART") >>
         ELSE <<>>)
        \o
        (IF Get(cmd, "distance", 0) # 0
         THEN << DriveCalls(cmd.distance, speed, StopParam(stop_behavior)) >>
         ELSE <<>>)

\* The awaited hardware calls of one command, in order; each is a sequence of
\* calls of which the last is the awaited one.
SingleAwaits(cmd) ==
    LET action == Get(cmd, "action", "")
        stop_behavior == Get(cmd, "stop_behavior", "hold")
        speed == Get(cmd, "speed", DefaultSpeed)
    IN  CASE action = "drive" /\ HasDrivebase ->
                << DriveCalls(Get(cmd, "distance", 0), speed,
                              StopParam(stop_behavior)) >>
          [] action = "turn" /\ HasDrivebase ->
                << TurnCalls(Get(cmd, "angle", 0), speed,
                             StopParam(stop_behavior)) >>
          [] action = "stop" -> StopAwaits(cmd)
          [] action = "drive_continuous" /\ HasDrivebase ->
                << << Call("drivebase", "drive", Get(cmd, "speed", 0),
                           Get(cmd, "turn_rate", 0), "-") >> >>
          [] action = "turn_and_drive" /\ HasDrivebase ->
                TurnAndDriveAwaits(cmd)
          [] action = "arc" /\ HasDrivebase ->
                IF ArcAngle(cmd) # None
                THEN << << Call("drivebase", "settings_straight_speed",
                                speed, 0, "-"),
                           Call("drivebase",
                                IF drivebase_has_arc THEN "arc" ELSE "curve",
                                Get(cmd, "radius", DefaultRadius),
                                ArcAngle(cmd)[1],
                                StopParam(stop_behavior)) >> >>
                ELSE <<>>
          [] action = "motor" /\ MotorName(cmd) \in _motors ->
                IF Has(cmd, "angle")
                THEN << << Call(MotorName(cmd), "run_angle", speed,
                                cmd.angle, "-") >> >>
                ELSE << << Call(MotorName(cmd), "run", speed, 0, "-") >> >>
          [] OTHER -> <<>>

\* ------------------------------------------------------ command dispatch
\* The locals of a call of process_commands that is not running.
IdleFrame ==
    [bytes_read |-> 0, lines |-> <<>>, seq |-> <<>>, seqlen |-> 0,
     awaits |-> <<>>]

\* A second task that is not inside process_commands.
IdlePeer == [pc |-> "idle", frame |-> IdleFrame]

NoStatus == [selected |-> 0, total |-> 0, state |-> "none"]

\* What a call of process_commands reads and writes, with its locals.
Machine ==
    [inq |-> inq, consumed |-> consumed, buf |-> _command_buffer,
     disp |-> dispatched, hw |-> hw, enabled |-> _telemetry_enabled,
     interval |-> _telemetry_interval_ms, runreq |-> _menu_run_requested,
     index |-> _menu_current_index, display |-> display, status |-> status,
     at |-> "run",
     bytes_read |-> frame.bytes_read, lines |-> frame.lines,
     seq |-> frame.seq, seqlen |-> frame.seqlen, awaits |-> frame.awaits]

Max(a, b) == IF a >= b THEN a ELSE b

\* As set_telemetry_interval, without the minimum.
IntervalUnclamped(interval_ms) == interval_ms

\* set_telemetry_interval
set_telemetry_interval(interval_ms) == Max(MinIntervalMs, interval_ms)

\* The MENU_STATUS line, printed when there are programs and the index is in
\* range.
_send_menu_status(programs, index, state, old) ==
    IF programs # <<>> /\ index < Len(programs)
    THEN [selected |-> programs[index + 1].num, total |-> Len(programs),
          state |-> state]
    ELSE old

\* The first position of the menu whose program has the number asked for, or 0.
RECURSIVE FindProgram(_, _)
FindProgram(program_number, i) ==
    IF i > Len(_menu_programs) THEN 0
    ELSE IF _menu_programs[i].num = program_number THEN i
    ELSE FindProgram(program_number, i + 1)

\* select_program: the index is assigned to a name that is local to
\* _execute_single_command (it has no global declaration there), so
\* _menu_current_index keeps its value; the display and the status line are
\* written.
SelectProgram(cmd, m) ==
    LET program_number == Get(cmd, "program_number", 0)
        i == FindProgram(program_number, 1)
    IN  IF program_number # 0 /\ i # 0
        THEN [m EXCEPT !.display = IF _hub THEN _menu_programs[i].num ELSE @,
                       !.status = _send_menu_status(_menu_programs, m.index,
                                                    _menu_state, @)]
        ELSE m

\* set_telemetry: enabled defaults to True; a zero or absent interval is
\* left alone.
SetTelemetry(cmd, m) ==
    LET interval == Get(cmd, "interval", 0)
    IN  [m EXCEPT !.enabled = Get(cmd, "enabled", TRUE),
                  !.interval = IF interval # 0
                               THEN set_telemetry_interval(interval) ELSE @]

\* reset_drivebase: the drivebase is reset, then the hub's heading; with no
\* hub the second call raises and the exception is caught.
ResetDrivebase(m) ==
    [m EXCEPT !.hw = @ \o << Call("drivebase", "reset", 0, 0, "-") >>
                       \o (IF _hub
                           THEN << Call("hub", "imu_reset_heading", 0, 0, "-") >>
                           ELSE <<>>)]

\* As RunSelectedAllowed, without the test of the menu state.
RunSelectedWhileRunning == _menu_active

\* The guard of run_selected.
RunSelectedAllowed == _menu_active /\ _menu_state = "menu"

\* What one command does before its first await.
SingleEffect(cmd, m) ==
    LET action == Get(cmd, "action", "")
    IN  CASE action = "set_telemetry" -> SetTelemetry(cmd, m)
          [] action = "reset_drivebase" /\ HasDrivebase -> ResetDrivebase(m)
          [] action = "select_program" /\ _menu_active -> SelectProgram(cmd, m)
          [] action = "run_selected" /\ RunSelectedAllowed ->
                [m EXCEPT !.runreq = TRUE]
          [] OTHER -> m

\* As SequenceStop, with the last position taken one too far.
SequenceStopOffByOne(i, n) == IF i = n THEN "hold" ELSE "coast_smart"

\* The stop behaviour a command sequence gives its i-th command of n (from 0).
SequenceStop(i, n) == IF i = n - 1 THEN "hold" ELSE "coast_smart"

\* The command a sequence executes for its element cmd at position i of n.
SequenceCommand(cmd, i, n) ==
    IF Has(cmd, "action") /\ cmd.action \in {"drive", "turn", "arc"}
    THEN With(cmd, "stop_behavior", SequenceStop(i, n))
    ELSE cmd

\* An exception caught by _execute_single_command ends that command only.
CaughtInSingle(m) == [m EXCEPT !.awaits = <<>>]

\* An exception caught by _execute_command_sequence ends the sequence.
CaughtInSequence(m) == [m EXCEPT !.awaits = <<>>, !.seq = <<>>]

\* As CaughtInLine, with the failure reaching the read loop, which stops.
CaughtInLineEscapes(m) ==
    [m EXCEPT !.lines = <<>>, !.bytes_read = max_bytes_per_call]

\* A parse failure caught by _process_command_line ends that line only.
CaughtInLine(m) == m

\* As KeptFragment, with the first piece of the buffer kept.
KeptFragmentFirst(lines) == lines[1]

\* The fragment _process_buffered_commands keeps in the buffer.
KeptFragment(lines) == lines[Len(lines)]

\* The awaited call is made and the coroutine is suspended in it.
Issue(m) ==
    [m EXCEPT !.hw = @ \o Head(m.awaits), !.awaits = Tail(@), !.at = "await"]

\* _process_command_line has returned.
LineDone(m) ==
    [m EXCEPT !.disp = [i \in DOMAIN @ |-> [@[i] EXCEPT !.done = TRUE]]]

RECURSIVE ReadLoop(_), RunLines(_), RunSeq(_)

\* _execute_single_command
RunSingle(m, v) ==
    IF v.t # "dict" THEN RunSeq(CaughtInSingle(m))
    ELSE LET m1 == [SingleEffect(v.d, m) EXCEPT !.awaits = SingleAwaits(v.d)]
         IN  IF m1.awaits = <<>> THEN RunSeq(m1) ELSE Issue(m1)

\* As RunSeq, with the elements taken from the end of the list.
RunSeqBackwards(m) ==
    IF m.seq = <<>> THEN RunLines(LineDone(m))
    ELSE LET cmd == m.seq[Len(m.seq)]
             i == Len(m.seq) - 1
             m1 == [m EXCEPT !.seq = SubSeq(@, 1, Len(@) - 1)]
         IN  IF cmd.t \in {"num", "null"}
             THEN RunSeq(CaughtInSequence(m1))
             ELSE IF cmd.t = "dict"
                  THEN RunSingle(m1, Obj(SequenceCommand(cmd.d, i, m.seqlen)))
                  ELSE RunSingle(m1, cmd)

\* _execute_command_sequence, from its next element on; after the last one,
\* the rest of _process_buffered_commands.
RunSeq(m) ==
    IF m.seq = <<>> THEN RunLines(LineDone(m))
    ELSE LET cmd == Head(m.seq)
             i == m.seqlen - Len(m.seq)
             m1 == [m EXCEPT !.seq = Tail(@)]
         IN  IF cmd.t \in {"num", "null"}
             THEN RunSeq(CaughtInSequence(m1))
             ELSE IF cmd.t = "dict"
                  THEN RunSingle(m1, Obj(SequenceCommand(cmd.d, i, m.seqlen)))
                  ELSE RunSingle(m1, cmd)

\* _execute_command
ExecuteCommand(m, v) ==
    IF v.t = "null" THEN RunSeq(m)
    ELSE IF v.t = "list"
         THEN RunSeq([m EXCEPT !.seq = v.l, !.seqlen = Len(v.l)])
         ELSE RunSingle(m, v)

\* _process_command_line
ProcessCommandLine(m, text) ==
    LET p == ParseLine(text)
        m1 == [m EXCEPT !.disp = Append(@, [line |-> text, ok |-> p.ok,
                                            done |-> FALSE])]
    IN  IF p.ok THEN ExecuteCommand(m1, p.v) ELSE RunSeq(CaughtInLine(m1))

\* _process_buffered_commands, from its next line on; after the last one, the
\* rest of the read loop.
RunLines(m) ==
    IF m.lines = <<>> THEN ReadLoop(m)
    ELSE LET text == Strip(Head(m.lines))
             m1 == [m EXCEPT !.lines = Tail(@)]
         IN  IF text = <<>> THEN RunLines(m1) ELSE ProcessCommandLine(m1, text)

\* _process_buffered_commands, from its start.
ProcessBuffered(m) ==
    LET lines == Split(m.buf)
    IN  RunLines([m EXCEPT !.buf = KeptFragment(lines),
                           !.lines = SubSeq(lines, 1, Len(lines) - 1)])

\* As BudgetLeft, with one byte more.
BudgetLeftOneMore(bytes_read) == bytes_read <= max_bytes_per_call

\* The test of the read loop.
BudgetLeft(bytes_read) == bytes_read < max_bytes_per_call

\* The read loop of process_commands, up to the next await or its return: it
\* ends when the budget is used up, when no byte is available, and when
\* reading raises. The iterations that read a byte other than a newline only
\* move that byte to the buffer, so a run of them is taken in one step: plain
\* is the number of iterations up to the first that ends the loop or reads a
\* newline.
ReadLoop(m) ==
    LET Plain(i) == /\ BudgetLeft(m.bytes_read + i - 1)
                    /\ m.inq[i].k \notin {"nl", "err"}
        plain == CHOOSE n \in 0..Len(m.inq) :
                     /\ \A i \in 1..n : Plain(i)
                     /\ n < Len(m.inq) => ~Plain(n + 1)
        taken == SubSeq(m.inq, 1, plain)
        m0 == [m EXCEPT !.inq = SubSeq(@, plain + 1, Len(@)),
                        !.consumed = @ \o taken,
                        !.buf = @ \o taken,
                        !.bytes_read = @ + plain]
    IN  IF ~BudgetLeft(m0.bytes_read) \/ m0.inq = <<>>
        THEN [m0 EXCEPT !.at = "ret"]
        ELSE IF Head(m0.inq).k = "err"
        THEN [m0 EXCEPT !.inq = Tail(@), !.at = "ret"]
        ELSE LET byte == Head(m0.inq)
                 m1 == [m0 EXCEPT !.inq = Tail(@),
                                  !.consumed = Append(@, byte),
                                  !.buf = Append(@, byte),
                                  !.bytes_read = @ + 1]
             IN  ProcessBuffered(m1)

\* The awaited call has settled, or has raised.
Resume(m, raised) ==
    IF raised
    THEN RunSeq(CaughtInSingle(
             [m EXCEPT !.hw = Append(@, Call("-", "raised", 0, 0, "-"))]))
    ELSE IF m.awaits # <<>> THEN Issue(m)
    ELSE RunSeq(m)

\* process_commands, from its start.
process_commands(m) == ReadLoop([m EXCEPT !.bytes_read = 0])

\* ------------------------------------------------------------ the menu
NoRun == [active |-> FALSE, index |-> 0, num |-> 0, ended |-> FALSE,
          raised |-> FALSE]

\* The variables a call of process_commands leaves behind.
Commit(m) ==
    /\ inq' = m.inq
    /\ consumed' = m.consumed
    /\ _command_buffer' = m.buf
    /\ dispatched' = m.disp
    /\ hw' = m.hw
    /\ _telemetry_enabled' = m.enabled
    /\ _telemetry_interval_ms' = m.interval
    /\ _menu_run_requested' = m.runreq
    /\ _menu_current_index' = m.index
    /\ display' = m.display
    /\ status' = m.status
    /\ frame' = IF m.at = "await"
                THEN [bytes_read |-> m.bytes_read, lines |-> m.lines,
                      seq |-> m.seq, seqlen |-> m.seqlen, awaits |-> m.awaits]
                ELSE IdleFrame

\* As Debounced, with no press taken for a bounce.
DebouncedNever(current_time) == FALSE

\* The debounce test of _process_menu_buttons.
Debounced(current_time) ==
    current_time - _menu_last_button_time < _menu_button_debounce_ms

\* As LeftIndex, without the wrap-around.
LeftIndexNoWrap(index, n) == IF index > 0 THEN index - 1 ELSE 0

\* The index a LEFT press moves to.
LeftIndex(index, n) == (index - 1) % n

\* The index a RIGHT press moves to.
RightIndex(index, n) == (index + 1) % n

\* _process_menu_buttons with the buttons in pressed held down: what it
\* leaves in the index, the debounce timestamp, the run request, the display
\* and the status line.
_process_menu_buttons(pressed) ==
    LET same == [index |-> _menu_current_index,
                 time |-> _menu_last_button_time,
                 runreq |-> _menu_run_requested,
                 display |-> display, status |-> status]
        n == Len(_menu_programs)
        moved(i) == [same EXCEPT
                        !.index = i,
                        !.display = _menu_programs[i + 1].num,
                        !.status = _send_menu_status(_menu_programs, i,
                                                     _menu_state, @),
                        !.time = now]
    IN  IF ~_hub \/ ~_menu_active \/ _menu_state # "menu" THEN same
        ELSE IF Debounced(now) THEN same
        ELSE IF "LEFT" \in pressed THEN moved(LeftIndex(_menu_current_index, n))
        ELSE IF "RIGHT" \in pressed
             THEN moved(RightIndex(_menu_current_index, n))
        ELSE IF "CENTER" \in pressed
             THEN [same EXCEPT !.runreq = TRUE, !.time = now]
        ELSE same

\* The start of the selected program: what is running when main() is called.
Launch(r, runreq) ==
    [num |-> r.num, index |-> r.index, runreq |-> runreq]

\* The program _run_menu_program selects.
Selected(programs, index) == programs[index + 1]

\* _run_menu_program, up to the beep or, with no hub, to the call of main().
RunMenuProgram(m) ==
    IF _menu_programs = <<>> \/ m.index >= Len(_menu_programs)
    THEN /\ Commit(m)
         /\ pc' = "wait"
         /\ UNCHANGED << _menu_state, signal, launched, run >>
    ELSE LET selected == Selected(_menu_programs, m.index)
             r == [active |-> TRUE, index |-> m.index, num |-> selected.num,
                   ended |-> FALSE, raised |-> FALSE]
         IN  /\ _menu_state' = "running"
             /\ signal' = IF selected.position THEN "SET_POSITION"
                          ELSE "POSITION_RESET"
             /\ Commit([m EXCEPT !.status =
                           _send_menu_status(_menu_programs, m.index,
                                             "running", @)])
             /\ run' = r
             /\ IF _hub
                THEN pc' = "beep" /\ UNCHANGED launched
                ELSE /\ pc' = "prog"
                     /\ launched' = Append(launched, Launch(r, m.runreq))

\* As TakenRequest, with the request left standing.
TakenRequestKept(runreq) == runreq

\* The run request as process_menu_commands hands it on: cleared when taken.
TakenRequest(runreq) == FALSE

\* process_menu_commands after its call of process_commands, and what
\* run_hub_menu does with the answer.
AfterPoll(m) ==
    IF m.runreq /\ _menu_state = "menu"
    THEN RunMenuProgram([m EXCEPT !.runreq = TakenRequest(@)])
    ELSE /\ Commit(m)
         /\ pc' = "wait"
         /\ UNCHANGED << _menu_state, signal, launched, run >>

\* ------------------------------------------------------------- actions
\* A byte arrives on the input stream.
Arrive ==
    /\ stream # <<>>
    /\ inq' = Append(inq, Head(stream))
    /\ stream' = Tail(stream)
    /\ UNCHANGED << registryVars, peer, headingVars, telemetryVars,
                    _command_buffer, menuVars, now, consumed, hw, dispatched,
                    display, light, status, signal, launched, emitted, script,
                    pc, frame, tel, run >>

\* The user's main loop calls process_commands.
UserPoll ==
    /\ pc = "user"
    /\ tel["user"].at = "idle"
    /\ script.kind = "loop" \/ ~_menu_active
    /\ LET m == process_commands(Machine)
       IN  /\ Commit(m)
           /\ pc' = IF m.at = "await" THEN "user_await" ELSE "user"
    /\ UNCHANGED << registryVars, peer, headingVars,
                    _last_telemetry_time, _menu_programs, _menu_active,
                    _menu_state, _menu_last_button_time, now, stream, light,
                    signal, launched, emitted, script, tel, run >>

\* The awaited hardware call settles, or raises, and the coroutine goes on.
Settle(raised) ==
    /\ pc \in {"user_await", "prog_await", "menu_await"}
    /\ LET m == Resume(Machine, raised)
       IN  IF m.at = "await"
           THEN /\ Commit(m)
                /\ UNCHANGED << pc, _menu_state, signal, launched, run >>
           ELSE IF pc = "menu_await" THEN AfterPoll(m)
           ELSE /\ Commit(m)
                /\ pc' = IF pc = "user_await" THEN "user" ELSE "prog"
                /\ UNCHANGED << _menu_state, signal, launched, run >>
    /\ UNCHANGED << registryVars, peer, headingVars,
                    _last_telemetry_time, _menu_programs, _menu_active,
                    _menu_last_button_time, now, stream, light, emitted,
                    script, tel >>

\* As PeerMachine, with a command buffer of the task's own, empty at the call.
PeerMachineOwnBuffer ==
    [Machine EXCEPT !.buf = <<>>,
                    !.bytes_read = peer.frame.bytes_read,
                    !.lines = peer.frame.lines, !.seq = peer.frame.seq,
                    !.seqlen = peer.frame.seqlen,
                    !.awaits = peer.frame.awaits]

\* What a call of process_commands made by the second task reads and writes:
\* the module's globals, which it shares with the first, and locals of its
\* own.
PeerMachine ==
    [Machine EXCEPT !.bytes_read = peer.frame.bytes_read,
                    !.lines = peer.frame.lines, !.seq = peer.frame.seq,
                    !.seqlen = peer.frame.seqlen,
                    !.awaits = peer.frame.awaits]

\* The variables a call of process_commands by the second task leaves behind.
PeerCommit(m) ==
    /\ inq' = m.inq
    /\ consumed' = m.consumed
    /\ _command_buffer' = m.buf
    /\ dispatched' = m.disp
    /\ hw' = m.hw
    /\ _telemetry_enabled' = m.enabled
    /\ _telemetry_interval_ms' = m.interval
    /\ _menu_run_requested' = m.runreq
    /\ _menu_current_index' = m.index
    /\ display' = m.display
    /\ status' = m.status
    /\ peer' = IF m.at = "await"
               THEN [pc |-> "await",
                     frame |-> [bytes_read |-> m.bytes_read,
                                lines |-> m.lines, seq |-> m.seq,
                                seqlen |-> m.seqlen, awaits |-> m.awaits]]
               ELSE IdlePeer

\* The second task calls process_commands, while the first is between two
\* calls or suspended inside one.
PeerPoll ==
    /\ peer.pc = "idle"
    /\ pc \in {"user", "user_await"}
    /\ PeerCommit(process_commands(PeerMachine))
    /\ UNCHANGED << registryVars, headingVars, _last_telemetry_time,
                    _menu_programs, _menu_active, _menu_state,
                    _menu_last_button_time, now, stream, light, signal,
                    launched, emitted, script, pc, frame, tel, run >>

\* The hardware call the second task awaits settles, or raises, and its
\* coroutine goes on.
PeerSettle(raised) ==
    /\ peer.pc = "await"
    /\ PeerCommit(Resume(PeerMachine, raised))
    /\ UNCHANGED << registryVars, headingVars, _last_telemetry_time,
                    _menu_programs, _menu_active, _menu_state,
                    _menu_last_button_time, now, stream, light, signal,
                    launched, emitted, script, pc, frame, tel, run >>

\* init_hub_menu(programs), called by the user's program.
init_hub_menu ==
    /\ pc = "user"
    /\ script.kind = "menu"
    /\ ~_menu_active
    /\ _menu_programs' = script.programs
    /\ _menu_current_index' = 0
    /\ _menu_active' = TRUE
    /\ _menu_state' = "menu"
    /\ light' = IF _hub THEN "GREEN" ELSE light
    /\ display' = IF _hub /\ script.programs # <<>> THEN 1 ELSE display
    /\ status' = _send_menu_status(script.programs, 0, "menu", status)
    /\ UNCHANGED << registryVars, peer, headingVars, telemetryVars,
                    _command_buffer, _menu_last_button_time,
                    _menu_run_requested, now, stream, inq, consumed, hw,
                    dispatched, signal, launched, emitted, script, pc, frame,
                    tel, run >>

\* As StartIndex, with the index left as it was.
StartIndexKept(index) == index

\* The index init_hub_menu leaves, whatever it was.
StartIndex(index) == 0

\* init_hub_menu(programs) called once more, with another list, by a menu
\* program or by another task while the menu loop is suspended.
init_hub_menu_again(programs) ==
    /\ _menu_active
    /\ pc \in {"loop", "menu_await", "beep", "prog", "prog_await", "wait"}
    /\ programs # <<>>
    /\ _menu_programs' = programs
    /\ _menu_current_index' = StartIndex(_menu_current_index)
    /\ _menu_active' = TRUE
    /\ _menu_state' = "menu"
    /\ light' = IF _hub THEN "GREEN" ELSE light
    /\ display' = IF _hub THEN 1 ELSE display
    /\ status' = _send_menu_status(programs, _menu_current_index', "menu",
                                   status)
    /\ UNCHANGED << registryVars, peer, headingVars, telemetryVars,
                    _command_buffer, _menu_last_button_time,
                    _menu_run_requested, now, stream, inq, consumed, hw,
                    dispatched, signal, launched, emitted, script, pc, frame,
                    tel, run >>

\* run_hub_menu(), called by the user's program: it returns at once when the
\* menu is not initialised or has no programs.
run_hub_menu ==
    /\ pc = "user"
    /\ script.kind = "menu"
    /\ _menu_active
    /\ pc' = IF _menu_programs # <<>> THEN "loop" ELSE "done"
    /\ UNCHANGED << registryVars, peer, headingVars, telemetryVars,
                    _command_buffer, menuVars, now, stream, inq, consumed, hw,
                    dispatched, display, light, status, signal, launched,
                    emitted, script, frame, tel, run >>

\* One turn of the menu loop with the buttons in pressed held down:
\* process_menu_commands, and the start of the program if one is to run.
MenuTurn(pressed) ==
    /\ pc = "loop"
    /\ IF _menu_state = "menu"
       THEN LET b == _process_menu_buttons(pressed)
                m == process_commands(
                        [Machine EXCEPT !.index = b.index,
                                        !.runreq = b.runreq,
                                        !.display = b.display,
                                        !.status = b.status])
            IN  /\ _menu_last_button_time' = b.time
                /\ IF m.at = "await"
                   THEN /\ Commit(m)
                        /\ pc' = "menu_await"
                        /\ UNCHANGED << _menu_state, signal, launched, run >>
                   ELSE AfterPoll(m)
       ELSE /\ pc' = "wait"
            /\ UNCHANGED << _menu_last_button_time, _menu_state, signal,
                            launched, run, inq, consumed, _command_buffer,
                            dispatched, hw, _telemetry_enabled,
                            _telemetry_interval_ms, _menu_run_requested,
                            _menu_current_index, display, status, frame >>
    /\ UNCHANGED << registryVars, peer, headingVars,
                    _last_telemetry_time, _menu_programs, _menu_active, now,
                    stream, light, emitted, script, tel >>

\* The start beep is over: the light goes red and main() is called.
Beeped ==
    /\ pc = "beep"
    /\ light' = "RED"
    /\ launched' = Append(launched, Launch(run, _menu_run_requested))
    /\ pc' = "prog"
    /\ UNCHANGED << registryVars, peer, headingVars, telemetryVars,
                    _command_buffer, menuVars, now, stream, inq, consumed, hw,
                    dispatched, display, status, signal, emitted, script,
                    frame, tel, run >>

\* The running menu program calls process_commands.
ProgPoll ==
    /\ pc = "prog"
    /\ inq # <<>>
    /\ LET m == process_commands(Machine)
       IN  /\ Commit(m)
           /\ pc' = IF m.at = "await" THEN "prog_await" ELSE "prog"
    /\ UNCHANGED << registryVars, peer, headingVars,
                    _last_telemetry_time, _menu_programs, _menu_active,
                    _menu_state, _menu_last_button_time, now, stream, light,
                    signal, launched, emitted, script, tel, run >>

\* As NextIndex, without the wrap-around.
NextIndexNoWrap(index, n) == IF index + 1 < n THEN index + 1 ELSE index

\* The index _run_menu_program advances to.
NextIndex(index, n) == (index + 1) % n

\* main() returns, or raises, after d time units, and _run_menu_program
\* goes back to the menu.
ProgEnd(raised, d) ==
    /\ pc = "prog"
    /\ now + d <= script.until
    /\ now' = now + d
    /\ _menu_state' = "menu"
    /\ _menu_current_index' =
          NextIndex(_menu_current_index, Len(_menu_programs))
    /\ light' = IF _hub THEN "GREEN" ELSE light
    /\ display' = IF _hub
                  THEN _menu_programs[_menu_current_index' + 1].num
                  ELSE display
    /\ status' = _send_menu_status(_menu_programs, _menu_current_index',
                                   "menu", status)
    /\ run' = [run EXCEPT !.ended = TRUE, !.raised = raised]
    /\ pc' = "wait"
    /\ UNCHANGED << registryVars, peer, headingVars, telemetryVars,
                    _command_buffer, _menu_programs, _menu_active,
                    _menu_last_button_time, _menu_run_requested, stream, inq,
                    consumed, hw, dispatched, signal, launched, emitted,
                    script, frame, tel >>

\* wait(50) at the end of a turn of the menu loop is over.
WaitDone ==
    /\ pc = "wait"
    /\ now + MenuWaitMs <= script.until
    /\ now' = now + MenuWaitMs
    /\ pc' = "loop"
    /\ run' = NoRun
    /\ UNCHANGED << registryVars, peer, headingVars, telemetryVars,
                    _command_buffer, menuVars, stream, inq, consumed, hw,
                    dispatched, display, light, status, signal, launched,
                    emitted, script, frame, tel >>

\* ------------------------------------------------------------- heading
\* No call of get_relative_heading yet.
NoHeading == [called |-> FALSE, raw |-> None, reference |-> None,
              value |-> None]

\* _read_raw_heading: None without a gyro, with one that has neither angle()
\* nor heading(), and when the read raises; else what the gyro reads.
_read_raw_heading(raises) ==
    IF _gyro_sensor = "none" THEN None
    ELSE IF _gyro_sensor \in {"angle", "heading"} /\ ~raises
         THEN << gyro_angle >>
    ELSE None

\* As RelativeTo, with the reference ignored.
RelativeToNothing(raw, reference) == raw

\* The raw heading as get_relative_heading hands it to _normalize_heading.
RelativeTo(raw, reference) ==
    IF reference = None THEN raw ELSE << raw[1] - reference[1] >>

\* reset_heading_reference()
reset_heading_reference(raises) ==
    /\ _pseudo_heading_reference' = _read_raw_heading(raises)
    /\ UNCHANGED << registryVars, peer, _gyro_sensor, gyro_angle, relative_heading,
                    turning, telemetryVars, _command_buffer, menuVars, now, stream,
                    inq, consumed, hw, dispatched, display, light, status,
                    signal, launched, emitted, script, pc, frame, tel, run >>

\* get_relative_heading(), with what it read and what it returned.
get_relative_heading(raises) ==
    /\ LET raw == _read_raw_heading(raises)
       IN  relative_heading' =
              [called |-> TRUE, raw |-> raw,
               reference |-> _pseudo_heading_reference,
               value |-> IF raw = None THEN None
                         ELSE _normalize_heading(
                                 RelativeTo(raw, _pseudo_heading_reference))]
    /\ UNCHANGED << registryVars, peer, _gyro_sensor, _pseudo_heading_reference,
                    gyro_angle, turning, telemetryVars, _command_buffer, menuVars, now,
                    stream, inq, consumed, hw, dispatched, display, light,
                    status, signal, launched, emitted, script, pc, frame, tel,
                    run >>

\* The robot turns: the gyro reads another angle.
GyroTurns(angle) ==
    /\ angle # gyro_angle
    /\ gyro_angle' = angle
    /\ UNCHANGED << registryVars, peer, _gyro_sensor, _pseudo_heading_reference,
                    relative_heading, turning, telemetryVars, _command_buffer,
                    menuVars, now, stream, inq, consumed, hw, dispatched,
                    display, light, status, signal, launched, emitted, script,
                    pc, frame, tel, run >>

\* No call of turn_to_heading yet.
NoTurn == [at |-> "idle", calls |-> 0, target |-> 0, tolerance |-> 0,
           readable |-> FALSE, delta |-> None, exact |-> TRUE]

\* As HeadingDelta, without the normalisation.
HeadingDeltaRaw(target, relative) == << target - relative >>

\* As HeadingDelta, with the difference taken the other way round.
HeadingDeltaReversed(target, relative) ==
    _normalize_heading(<< relative - target >>)

\* The turn turn_to_heading computes from the target and the relative
\* heading.
HeadingDelta(target, relative) == _normalize_heading(<< target - relative >>)

\* math.fabs(delta) <= float(tolerance)
WithinTolerance(delta, tolerance) ==
    (IF delta >= 0 THEN delta ELSE -delta) <= tolerance

\* What get_relative_heading returns for a raw reading and a reference.
RelativeValue(raw, reference) ==
    IF raw = None THEN None
    ELSE _normalize_heading(RelativeTo(raw, reference))

\* turn_to_heading(target, speed, tolerance, stop_behavior) with the default
\* speed, up to its return or to the turn it awaits; raises tells which of
\* its reads of the gyro raise.  With no relative heading it turns by the
\* target; with no reference it takes one and reads again; it returns with no
\* turn when the difference is within the tolerance.
turn_to_heading(target, tolerance, stop_behavior, raises) ==
    /\ pc = "user"
    /\ turning.at # "turn"
    /\ turning.calls < MaxTurns
    /\ _drivebase
    /\ LET then == _resolve_stop_behavior(stop_behavior)
           settings == Call("drivebase", "settings_turn_rate",
                            DefaultTurnRate, 0, "-")
           first == _read_raw_heading(raises[1])
           lazy == first # None /\ _pseudo_heading_reference = None
           reference == IF lazy THEN _read_raw_heading(raises[2])
                        ELSE _pseudo_heading_reference
           raw == IF lazy THEN _read_raw_heading(raises[3]) ELSE first
           relative == RelativeValue(raw, reference)
           delta == IF relative = None THEN << target >>
                    ELSE HeadingDelta(target, relative[1])
           call == [turning EXCEPT !.calls = @ + 1, !.target = target,
                                   !.tolerance = tolerance,
                                   !.readable = relative # None,
                                   !.exact = TRUE]
       IN  /\ _pseudo_heading_reference' = reference
           /\ relative_heading' =
                 [called |-> TRUE, raw |-> raw, reference |-> reference,
                  value |-> relative]
           /\ IF relative # None /\ WithinTolerance(delta[1], tolerance)
              THEN /\ hw' = Append(hw, settings)
                   /\ turning' = [call EXCEPT !.at = "done", !.delta = None]
              ELSE /\ hw' = hw \o << settings,
                                     Call("drivebase", "turn", delta[1], 0,
                                          then) >>
                   /\ turning' = [call EXCEPT !.at = "turn", !.delta = delta]
    /\ UNCHANGED << registryVars, peer, _gyro_sensor, gyro_angle, telemetryVars,
                    _command_buffer, menuVars, now, stream, inq, consumed,
                    dispatched, display, light, status, signal, launched,
                    emitted, script, pc, frame, tel, run >>

\* The turn turn_to_heading awaits has settled, the gyro reading having
\* changed by the turn and by drift, or has raised; after a turn by the
\* difference, turn_to_heading reads the relative heading and returns it.
TurnSettled(raised, drift, raises) ==
    /\ turning.at = "turn"
    /\ ~raised \/ drift = 0
    /\ IF raised
       THEN /\ turning' = [turning EXCEPT !.at = "raised"]
            /\ UNCHANGED << gyro_angle, relative_heading >>
       ELSE /\ gyro_angle' = gyro_angle + turning.delta[1] + drift
            /\ turning' = [turning EXCEPT !.at = "done", !.exact = drift = 0]
            /\ IF turning.readable
               THEN LET raw == IF _gyro_sensor \in {"angle", "heading"}
                                  /\ ~raises
                               THEN << gyro_angle' >> ELSE None
                    IN  relative_heading' =
                           [called |-> TRUE, raw |-> raw,
                            reference |-> _pseudo_heading_reference,
                            value |-> RelativeValue(
                                         raw, _pseudo_heading_reference)]
               ELSE UNCHANGED relative_heading
    /\ UNCHANGED << registryVars, peer, _gyro_sensor, _pseudo_heading_reference,
                    telemetryVars, _command_buffer, menuVars, now, stream,
                    inq, consumed, hw, dispatched, display, light, status,
                    signal, launched, emitted, script, pc, frame, tel, run >>

\* ----------------------------------------------------------- telemetry
\* The tasks that call send_telemetry: the user's main loop and
\* background_telemetry_task.
Tasks == {"user", "background"}

TaskIdle == [at |-> "idle", ts |-> 0, iv |-> 0, until |-> 0]

\* As IntervalPassed, with the interval ignored.
IntervalIgnored(current_time) == TRUE

\* The interval test of send_telemetry.
IntervalPassed(current_time) ==
    ~(current_time - _last_telemetry_time < _telemetry_interval_ms)

\* The keys of a telemetry record are written as paths: "hub.imu.heading" is
\* the key heading of the sub-record imu of the sub-record hub.
\* _get_motor_telemetry: each motor's angle, speed and load, or its error.
_get_motor_telemetry ==
    UNION { IF name \in faults
            THEN { << "motors", name, "error" >> }
            ELSE { << "motors", name, "angle" >>, << "motors", name, "speed" >>,
                   << "motors", name, "load" >> } : name \in _motors }

\* The IMU part of _get_hub_telemetry: each of the three reads gives its key
\* or its error key.
ImuTelemetry ==
    { << "hub", "imu", IF read \in faults THEN read \o "_error" ELSE read >> :
        read \in {"heading", "acceleration", "angular_velocity"} }

\* _get_hub_telemetry: nothing without a hub; battery, IMU and system name
\* are read inside one try block of which only the IMU reads and the system
\* name have a handler of their own, so a battery read that raises leaves
\* only the error of the block; the gyro is read after the block.
_get_hub_telemetry ==
    IF ~_hub THEN {}
    ELSE (IF "battery" \in faults
          THEN { << "hub", "error" >> }
          ELSE { << "hub", "battery", "voltage" >>,
                 << "hub", "battery", "current" >> }
               \cup ImuTelemetry
               \cup (IF "system" \in faults THEN {}
                     ELSE { << "hub", "system", "name" >> }))
         \cup (IF _gyro_sensor # "angle" THEN {}
               ELSE IF "gyro" \in faults THEN { << "hub", "gyro", "error" >> }
               ELSE { << "hub", "gyro", "angle" >>, << "hub", "gyro", "speed" >> })

\* The drivebase part of send_telemetry.
DrivebaseTelemetry ==
    IF ~_drivebase THEN {}
    ELSE IF "drivebase" \in faults THEN { << "drivebase", "error" >> }
    ELSE { << "drivebase", "distance" >>, << "drivebase", "angle" >>,
           << "drivebase", "state" >> }

\* The keys of the record send_telemetry collects.
Telemetry ==
    { << "timestamp" >>, << "type" >> }
    \cup _get_motor_telemetry
    \cup (IF _sensors > 0 THEN { << "sensors" >> } ELSE {})
    \cup _get_hub_telemetry
    \cup DrivebaseTelemetry

\* The record send_telemetry prints: its timestamp and keys, with the
\* interval the call was tested against and the interval in effect when it
\* is printed.
Record(ts, iv) ==
    [ts |-> ts, iv |-> iv, out |-> _telemetry_interval_ms, data |-> Telemetry]

\* Where a task is when its call of send_telemetry has returned: the user's
\* loop goes on, background_telemetry_task waits for the interval.
Returned(task) ==
    IF task = "background"
    THEN [TaskIdle EXCEPT !.at = "wait",
                          !.until = now + _telemetry_interval_ms]
    ELSE TaskIdle

\* A task calls send_telemetry: it returns at once when telemetry is
\* disabled or the interval has not passed; otherwise it takes the time as
\* the last telemetry time and as the timestamp, and reads the sensors,
\* where it is suspended when there are any.
send_telemetry(task) ==
    /\ tel[task].at = "idle"
    /\ task = "user" => pc = "user" /\ script.kind = "loop"
    /\ Len(emitted) < MaxRecords
    /\ LET current_time == now
       IN  IF ~_telemetry_enabled \/ ~IntervalPassed(current_time)
           THEN /\ tel' = [tel EXCEPT ![task] = Returned(task)]
                /\ UNCHANGED << _last_telemetry_time, emitted >>
           ELSE /\ _last_telemetry_time' = current_time
                /\ IF _sensors = 0
                   THEN /\ emitted' = Append(emitted,
                               Record(current_time, _telemetry_interval_ms))
                        /\ tel' = [tel EXCEPT ![task] = Returned(task)]
                   ELSE /\ tel' = [tel EXCEPT ![task] =
                               [TaskIdle EXCEPT !.at = "sensors",
                                                !.ts = current_time,
                                                !.iv = _telemetry_interval_ms]]
                        /\ UNCHANGED emitted
    /\ UNCHANGED << registryVars, peer, headingVars,
                    _telemetry_enabled, _telemetry_interval_ms,
                    _command_buffer, menuVars, now, stream, inq, consumed, hw,
                    dispatched, display, light, status, signal, launched,
                    script, pc, frame, run >>

\* The sensors have been read: send_telemetry prints the record and returns.
SensorsRead(task) ==
    /\ tel[task].at = "sensors"
    /\ emitted' = Append(emitted, Record(tel[task].ts, tel[task].iv))
    /\ tel' = [tel EXCEPT ![task] = Returned(task)]
    /\ UNCHANGED << registryVars, peer, headingVars, telemetryVars,
                    _command_buffer, menuVars, now, stream, inq, consumed, hw,
                    dispatched, display, light, status, signal, launched,
                    script, pc, frame, run >>

\* wait(_telemetry_interval_ms) of background_telemetry_task is over.
BackgroundWaitDone ==
    /\ tel["background"].at = "wait"
    /\ now >= tel["background"].until
    /\ tel' = [tel EXCEPT !["background"] = TaskIdle]
    /\ UNCHANGED << registryVars, peer, headingVars, telemetryVars,
                    _command_buffer, menuVars, now, stream, inq, consumed, hw,
                    dispatched, display, light, status, signal, launched,
                    emitted, script, pc, frame, run >>

\* The stopwatch that get_time_ms reads goes on.
Tick ==
    /\ now + TickMs <= MaxTime
    /\ now' = now + TickMs
    /\ UNCHANGED << registryVars, peer, headingVars, telemetryVars,
                    _command_buffer, menuVars, stream, inq, consumed, hw,
                    dispatched, display, light, status, signal, launched,
                    emitted, script, pc, frame, tel, run >>

\* The user's program calls set_telemetry_interval(interval_ms).
CallSetInterval(interval_ms) ==
    /\ pc = "user"
    /\ _telemetry_interval_ms' = set_telemetry_interval(interval_ms)
    /\ UNCHANGED << registryVars, peer, headingVars, _telemetry_enabled,
                    _last_telemetry_time, _command_buffer, menuVars, now,
                    stream, inq, consumed, hw, dispatched, display, light,
                    status, signal, launched, emitted, script, pc, frame, tel,
                    run >>

\* The user's program calls set_telemetry_enabled(enabled).
CallSetEnabled(enabled) ==
    /\ pc = "user"
    /\ _telemetry_enabled' = enabled
    /\ UNCHANGED << registryVars, peer, headingVars, _telemetry_interval_ms,
                    _last_telemetry_time, _command_buffer, menuVars, now,
                    stream, inq, consumed, hw, dispatched, display, light,
                    status, signal, launched, emitted, script, pc, frame, tel,
                    run >>

\* -------------------------------------------------------------- inputs
\* Sequences over S of length lo..hi.
SeqsOf(S, lo, hi) == UNION {[1..n -> S] : n \in lo..hi}

\* The text of one JSON value.
Text(v) == << JO(v), JC >>

\* The motion commands that command sequences are made of.
SeqCmds ==
    { [action |-> "drive", distance |-> 50],
      [action |-> "drive", distance |-> 50, stop_behavior |-> "coast"],
      [action |-> "turn", angle |-> 90],
      [action |-> "turn", angle |-> 90, stop_behavior |-> "hold"],
      [action |-> "arc", radius |-> 100, angle |-> 45,
       stop_behavior |-> "brake"],
      [action |-> "arc", startAngle |-> 350, endAngle |-> 10],
      [action |-> "arc", radius |-> 100] }

\* One line holding a sequence of 1..MaxSeq motion commands.
SeqStreams ==
    { Text(Lst([i \in DOMAIN cs |-> Obj(cs[i])])) \o << NL >> :
        cs \in SeqsOf(SeqCmds, 1, MaxSeq) }

\* The single commands.
LineCmds ==
    { [action |-> "drive", distance |-> 100, speed |-> 200],
      [action |-> "turn", angle |-> 90, stop_behavior |-> "coast"],
      [action |-> "arc", radius |-> 100, angle |-> 45],
      [action |-> "turn_and_drive", angle |-> 90, distance |-> 50],
      [action |-> "drive_continuous", speed |-> 100, turn_rate |-> 0],
      [action |-> "reset_drivebase"],
      [action |-> "motor", motor |-> "left", angle |-> 90],
      [action |-> "stop"],
      [action |-> "set_telemetry", enabled |-> FALSE],
      [action |-> "select_program", program_number |-> 2],
      [action |-> "run_selected"],
      [action |-> "beep"] }

\* The lines a stream starts with: a command, a text that is no JSON value, a
\* blank line, a JSON value cut short, a command between blanks, a number.
FirstLines ==
    { Text(Obj(c)) : c \in LineCmds }
    \cup { << JUNK >>, << SP >>, << JO(Obj([action |-> "stop"])) >>,
           << SP, JO(Obj([action |-> "stop"])), SP, JC, SP >>, Text(Num) }

\* The lines that follow.
NextLines ==
    { Text(Obj([action |-> "stop"])),
      Text(Obj([action |-> "set_telemetry", interval |-> 20])),
      << JUNK, JC >> }

RECURSIVE Joined(_)
Joined(ls) == IF ls = <<>> THEN <<>> ELSE Head(ls) \o << NL >> \o Joined(Tail(ls))

\* 1..MaxLines lines, the last one followed or not by an unfinished line.
LineStreams ==
    { Joined(<< first >> \o rest) \o tail :
        first \in FirstLines,
        rest \in SeqsOf(NextLines, 0, MaxLines - 1),
        tail \in { <<>>, << JO(Obj([action |-> "stop"])) >> } }

\* The lines sent to a menu.
MenuLines ==
    { Text(Obj([action |-> "select_program", program_number |-> 2])),
      Text(Obj([action |-> "run_selected"])),
      Text(Obj([action |-> "drive", distance |-> 100])) }

MenuStreams == { Joined(ls) : ls \in SeqsOf(MenuLines, 0, MaxLines) }

Program(num, position) == [num |-> num, position |-> position]

\* The program lists given to init_hub_menu.
ProgramLists ==
    { << Program(1, FALSE), Program(2, TRUE) >>,
      << Program(3, TRUE), Program(2, FALSE), Program(7, FALSE) >> }

\* The registries: everything registered, nothing registered, a drivebase
\* without arc() alone; a menu runs with one of the first two.
Registry(h, d, a, ms) ==
    [hub |-> h, drivebase |-> d, has_arc |-> a, motors |-> ms, sensors |-> 0,
     gyro |-> "none", faults |-> {}]

Registries ==
    { Registry(TRUE, TRUE, TRUE, {"left"}),
      Registry(FALSE, FALSE, FALSE, {}),
      Registry(FALSE, TRUE, FALSE, {}) }

MenuRegistries == { r \in Registries : r.hub = r.drivebase }

\* The user's programs: a main loop that polls, or a menu.
LoopScript == [kind |-> "loop", programs |-> <<>>, until |-> MaxTime]
MenuScript(programs) ==
    [kind |-> "menu", programs |-> programs, until |-> MaxTime]

\* The module's globals as its top level sets them, with the registrations
\* of r made, the user's program s about to run and the bytes of st to come.
Start(r, s, st) ==
    /\ _hub = r.hub
    /\ _drivebase = r.drivebase
    /\ drivebase_has_arc = r.has_arc
    /\ _motors = r.motors
    /\ _sensors = r.sensors
    /\ faults = r.faults
    /\ _gyro_sensor = r.gyro
    /\ _pseudo_heading_reference = None
    /\ gyro_angle = 0
    /\ relative_heading = NoHeading
    /\ turning = NoTurn
    /\ _telemetry_enabled = TRUE
    /\ _telemetry_interval_ms = DefaultIntervalMs
    /\ _last_telemetry_time = 0
    /\ _command_buffer = <<>>
    /\ _menu_programs = <<>>
    /\ _menu_current_index = 0
    /\ _menu_active = FALSE
    /\ _menu_state = "idle"
    /\ _menu_last_button_time = 0
    /\ _menu_run_requested = FALSE
    /\ now = 0
    /\ stream = st
    /\ inq = <<>>
    /\ consumed = <<>>
    /\ hw = <<>>
    /\ dispatched = <<>>
    /\ display = 0
    /\ light = "-"
    /\ status = NoStatus
    /\ signal = "-"
    /\ launched = <<>>
    /\ emitted = <<>>
    /\ script = s
    /\ pc = "user"
    /\ frame = IdleFrame
    /\ peer = IdlePeer
    /\ tel = [task \in Tasks |-> TaskIdle]
    /\ run = NoRun

\* A user program whose main loop polls for commands.
Init ==
    \E r \in Registries, st \in SeqStreams \cup LineStreams :
        Start(r, LoopScript, st)

Next ==
    \/ Arrive
    \/ UserPoll
    \/ \E raised \in BOOLEAN : Settle(raised)

Spec == Init /\ [][Next]_vars

\* A user program that initialises the hub menu and runs it.
MenuInit ==
    \E r \in MenuRegistries, ps \in ProgramLists, st \in MenuStreams :
        Start(r, MenuScript(ps), st)

Buttons == {"LEFT", "RIGHT", "CENTER"}

MenuNext ==
    \/ Arrive
    \/ UserPoll
    \/ \E raised \in BOOLEAN : Settle(raised)
    \/ init_hub_menu
    \/ run_hub_menu
    \/ \E pressed \in SUBSET Buttons : MenuTurn(pressed)
    \/ Beeped
    \/ ProgPoll
    \/ \E raised \in BOOLEAN, d \in {0, _menu_button_debounce_ms} :
          ProgEnd(raised, d)
    \/ WaitDone

MenuSpec == MenuInit /\ [][MenuNext]_vars

\* The lines that set up telemetry: an interval below the minimum, a longer
\* one, telemetry switched off; the orders they are sent in.
TelLine(cmd) == Text(Obj(cmd))

TelScripts ==
    { << TelLine([action |-> "set_telemetry", interval |-> 20]),
         TelLine([action |-> "set_telemetry", interval |-> 150]),
         TelLine([action |-> "set_telemetry", enabled |-> FALSE]) >>,
      << TelLine([action |-> "set_telemetry", enabled |-> FALSE]),
         TelLine([action |-> "set_telemetry", interval |-> 20]),
         TelLine([action |-> "set_telemetry", interval |-> 150]) >> }

\* The first 0..MaxLines lines of one of them.
TelStreams ==
    { Joined(SubSeq(ls, 1, n)) :
        ls \in TelScripts, n \in 0..(IF MaxLines < 3 THEN MaxLines ELSE 3) }

\* Everything registered, with or without a sensor.
TelRegistries ==
    { [Registry(TRUE, TRUE, TRUE, {"left"}) EXCEPT !.sensors = n] :
        n \in {0, 1} }

\* A user program whose main loop polls for commands and sends telemetry,
\* with background_telemetry_task running beside it.
TelInit ==
    \E r \in TelRegistries, st \in TelStreams : Start(r, LoopScript, st)

TelNext ==
    \/ Arrive
    \/ UserPoll
    \/ \E task \in Tasks : send_telemetry(task)
    \/ \E task \in Tasks : SensorsRead(task)
    \/ BackgroundWaitDone
    \/ Tick

TelSpec == TelInit /\ [][TelNext]_vars

\* The lines sent while background_telemetry_task runs alone.
BgStreams ==
    { Joined(ls) :
        ls \in SeqsOf({ Text(Obj([action |-> "stop"])),
                        Text(Obj([action |-> "set_telemetry",
                                  interval |-> 20])) }, 1, MaxLines) }

\* background_telemetry_task as the only activity of the agent: the user's
\* program calls nothing.
BgInit ==
    \E r \in TelRegistries, st \in BgStreams : Start(r, LoopScript, st)

BgNext ==
    \/ Arrive
    \/ send_telemetry("background")
    \/ SensorsRead("background")
    \/ BackgroundWaitDone
    \/ Tick

BgSpec == BgInit /\ [][BgNext]_vars /\ WF_vars(BgNext)

\* n blanks.
Blanks(n) == [i \in 1..n |-> SP]

\* Streams longer than the budget of one call: a line, MaxPad-3..MaxPad
\* blanks, a second line, both lines stop or both junk; with or without a
\* failing read after the first line.
BudgetStreams ==
    { Joined(<< line >>) \o fail \o Blanks(n) \o Joined(<< line >>) :
        line \in { Text(Obj([action |-> "stop"])), << JUNK, JC >> },
        fail \in { <<>>, << ERR >> },
        n \in (MaxPad - 3)..MaxPad }

\* A user program whose main loop polls, fed more than one call reads.
BudgetInit ==
    \E r \in { Registry(TRUE, TRUE, TRUE, {"left"}) }, st \in BudgetStreams :
        Start(r, LoopScript, st)

BudgetSpec == BudgetInit /\ [][Next]_vars

\* A menu that is initialised again while it runs.
ReinitNext ==
    \/ MenuNext
    \/ \E ps \in ProgramLists : init_hub_menu_again(ps)

\* The lines sent to it: select_program and run_selected, a drive, or
\* nothing.
ReinitStreams ==
    { <<>>,
      Joined(<< Text(Obj([action |-> "select_program", program_number |-> 2])),
                Text(Obj([action |-> "run_selected"])) >>),
      Joined(<< Text(Obj([action |-> "drive", distance |-> 100])) >>) }

ReinitInit ==
    \E ps \in ProgramLists, st \in ReinitStreams :
        Start(Registry(TRUE, TRUE, TRUE, {"left"}), MenuScript(ps), st)

ReinitSpec == ReinitInit /\ [][ReinitNext]_vars

\* The program lists of a menu whose buttons are followed: one, two and
\* three programs.
ButtonLists == ProgramLists \cup { << Program(5, FALSE) >> }

\* A menu on a hub that gets no commands, followed for MaxButtonTime.
ButtonInit ==
    \E ps \in ButtonLists :
        Start(Registry(TRUE, TRUE, TRUE, {"left"}),
              [MenuScript(ps) EXCEPT !.until = MaxButtonTime], <<>>)

ButtonNext ==
    \/ init_hub_menu
    \/ run_hub_menu
    \/ \E pressed \in SUBSET Buttons : MenuTurn(pressed)
    \/ Beeped
    \/ \E raised \in BOOLEAN : ProgEnd(raised, 0)
    \/ WaitDone

ButtonSpec == ButtonInit /\ [][ButtonNext]_vars

\* The values of stop_behavior sent with single commands.
StopBehaviors ==
    {"coast_smart", "smart", "coast-smart", "coast", "brake", "hold", "float"}

\* One motion command, with each stop_behavior and with none.
StopCmds ==
    LET plain == { [action |-> "drive", distance |-> 100, speed |-> 200],
                   [action |-> "turn", angle |-> 90],
                   [action |-> "arc", radius |-> 100, angle |-> 45],
                   [action |-> "turn_and_drive", angle |-> 90,
                    distance |-> 50] }
    IN  plain \cup { With(c, "stop_behavior", s) :
                        c \in plain, s \in StopBehaviors }

StopStreams == { Joined(<< Text(Obj(c)) >>) : c \in StopCmds }

\* A user program with everything registered whose main loop polls, sent one
\* motion command.
StopInit ==
    \E st \in StopStreams :
        Start(Registry(TRUE, TRUE, TRUE, {"left"}), LoopScript, st)

StopSpec == StopInit /\ [][Next]_vars

\* The start and end angles of the arcs sent.
ArcAngles == { -MaxAngle, -180, -90, 0, 10, 180, 350, MaxAngle }

ArcStreams ==
    { Joined(<< Text(Obj([action |-> "arc", radius |-> 100,
                          startAngle |-> s, endAngle |-> e])) >>) :
        s \in ArcAngles, e \in ArcAngles }

\* A user program with a drivebase, with or without arc(), whose main loop
\* polls, sent one arc given by its start and end angles.
ArcInit ==
    \E r \in { r \in Registries : r.drivebase }, st \in ArcStreams :
        Start(r, LoopScript, st)

ArcSpec == ArcInit /\ [][Next]_vars

\* The readings of the gyro.
RawAngles == { x \in (-MaxAngle)..MaxAngle : x % AngleStep = 0 }

\* The gyros: none, one read by angle(), one read by heading(), one with
\* neither.
Gyros == {"none", "angle", "heading", "bare"}

\* A user program that resets the heading reference and asks for the
\* relative heading while the robot turns.
HeadingInit ==
    \E g \in Gyros :
        Start([Registry(TRUE, TRUE, TRUE, {"left"}) EXCEPT !.gyro = g],
              LoopScript, <<>>)

HeadingNext ==
    \/ \E angle \in RawAngles : GyroTurns(angle)
    \/ \E raises \in BOOLEAN : reset_heading_reference(raises)
    \/ \E raises \in BOOLEAN : get_relative_heading(raises)

HeadingSpec == HeadingInit /\ [][HeadingNext]_vars

\* The intervals asked for: negative, zero, below the minimum, above it.
Intervals == { -20, 0, 20, 150 }

\* Up to two set_telemetry commands, one to a line, each with or without
\* enabled and with or without interval.
ConfigStreams ==
    LET plain == [action |-> "set_telemetry"]
        flagged == { plain } \cup { With(plain, "enabled", e) : e \in BOOLEAN }
        cmds == flagged \cup { With(c, "interval", i) :
                                  c \in flagged, i \in Intervals }
    IN  { Joined([i \in DOMAIN cs |-> Text(Obj(cs[i]))]) :
            cs \in SeqsOf(cmds, 0, 2) }

\* A user program whose main loop polls and which sets the telemetry
\* interval and flag itself between polls.
ConfigInit ==
    \E st \in ConfigStreams :
        Start(Registry(TRUE, TRUE, TRUE, {"left"}), LoopScript, st)

ConfigNext ==
    \/ Arrive
    \/ UserPoll
    \/ \E interval_ms \in Intervals : CallSetInterval(interval_ms)
    \/ \E enabled \in BOOLEAN : CallSetEnabled(enabled)

ConfigSpec == ConfigInit /\ [][ConfigNext]_vars

\* A hub, a drivebase, two motors and a gyro, with or without a sensor, of
\* which at most one read raises.
SampleRegistries ==
    LET reads == { "battery", "heading", "acceleration", "angular_velocity",
                   "system", "gyro", "drivebase", "left", "right" }
    IN  { [Registry(TRUE, TRUE, TRUE, {"left", "right"})
              EXCEPT !.sensors = n, !.gyro = "angle", !.faults = fs] :
            n \in {0, 1}, fs \in { {} } \cup { { read } : read \in reads } }

\* A user program whose main loop sends telemetry.
SampleInit == \E r \in SampleRegistries : Start(r, LoopScript, <<>>)

SampleNext ==
    \/ send_telemetry("user")
    \/ SensorsRead("user")
    \/ Tick

SampleSpec == SampleInit /\ [][SampleNext]_vars

\* The lines sent one at a time: a stop with no motor, with a registered
\* motor, with one that is not registered; turn_and_drive with and without a
\* turn, a drive and a stop_behavior; lists of two elements whose first is a
\* number, null, a string, a list, an unknown action, a motor that is not
\* registered or a drive, and whose second is a drive.
CommandStreams ==
    LET stops == { [action |-> "stop"],
                   [action |-> "stop", motor |-> "left"],
                   [action |-> "stop", motor |-> "arm"] }
        plain == { [action |-> "turn_and_drive", angle |-> a, distance |-> d] :
                     a \in {0, 90}, d \in {0, 50} }
                 \cup { [action |-> "turn_and_drive"] }
        tads == plain \cup { With(c, "stop_behavior", s) :
                               c \in plain,
                               s \in {"coast", "brake", "coast_smart"} }
        firsts == { Num, Null, Str, Lst(<<>>), Obj([action |-> "beep"]),
                    Obj([action |-> "motor", motor |-> "arm", angle |-> 90]),
                    Obj([action |-> "drive", distance |-> 50]) }
        lists == { Lst(<< f, Obj([action |-> "drive", distance |-> 100]) >>) :
                     f \in firsts }
    IN  { Joined(<< Text(v) >>) :
            v \in { Obj(c) : c \in stops \cup tads } \cup lists }

\* A user program whose main loop polls, sent one line, with everything
\* registered, nothing, a drivebase alone, or a motor alone.
CommandInit ==
    \E r \in Registries \cup { Registry(FALSE, FALSE, FALSE, {"left"}) },
       st \in CommandStreams :
        Start(r, LoopScript, st)

CommandSpec == CommandInit /\ [][Next]_vars

\* A user program that lets the robot turn, takes a reference or not, and
\* then calls turn_to_heading, for one of three headings, with the default
\* tolerance or a wider one; of the reads of the gyro the call makes none
\* raises, or the first, or the one that takes the reference, or the one
\* after it.
TurnNext ==
    \/ turning.calls = 0 /\ \E angle \in RawAngles : GyroTurns(angle)
    \/ /\ turning.calls = 0
       /\ \E raises \in BOOLEAN : reset_heading_reference(raises)
    \/ \E target \in { -90, 170, 270 }, tolerance \in { 1, 15 },
          raises \in { [i \in 1..3 |-> i = k] : k \in 0..3 } :
          turn_to_heading(target, tolerance, "brake", raises)
    \/ \E raised \in BOOLEAN, drift \in {0, 10}, raises \in BOOLEAN :
          TurnSettled(raised, drift, raises)

\* With a gyro read by angle(), or with none.
TurnInit ==
    \E g \in {"angle", "none"} :
        Start([Registry(TRUE, TRUE, TRUE, {"left"}) EXCEPT !.gyro = g],
              LoopScript, <<>>)

TurnSpec == TurnInit /\ [][TurnNext]_vars

\* A byte arrives while the user's program has not entered the menu loop yet.
ArriveBeforeMenu ==
    /\ pc = "user"
    /\ Arrive

\* Two run_selected lines sent back to back: each text written with n bytes
\* (blanks inside the braces make up the length), for n = 2, for the n that
\* makes the two lines fill the budget of one call exactly, and for MaxText,
\* the length of the text as the UI writes it.
CarryStreams ==
    { LET text == << JO(Obj([action |-> "run_selected"])) >>
                  \o [i \in 1..(n - 2) |-> SP] \o << JC >>
      IN  Joined(<< text, text >>) :
        n \in { 2, max_bytes_per_call \div 2 - 1, MaxText } }

\* A user program that initialises the hub menu and runs it; the whole input
\* is sent before the menu loop starts.
CarryInit ==
    \E r \in MenuRegistries, ps \in ProgramLists, st \in CarryStreams :
        Start(r, MenuScript(ps), st)

\* The menu loop with LEFT and RIGHT pressed now and then, and never CENTER;
\* the menu programs poll for commands or not.
CarryNext ==
    \/ ArriveBeforeMenu
    \/ init_hub_menu
    \/ run_hub_menu
    \/ \E pressed \in SUBSET {"LEFT", "RIGHT"} : MenuTurn(pressed)
    \/ Beeped
    \/ ProgPoll
    \/ \E raised \in BOOLEAN, d \in {0, _menu_button_debounce_ms} :
          ProgEnd(raised, d)
    \/ WaitDone

CarrySpec == CarryInit /\ [][CarryNext]_vars

\* The lines sent while two tasks poll: one to MaxLines of them, each a
\* motion that is awaited, a setting that is not, or a text that is no JSON
\* value, the last one followed or not by an unfinished line.
PeerStreams ==
    { Joined(ls) \o tail :
        ls \in SeqsOf({ Text(Obj([action |-> "drive", distance |-> 100])),
                        Text(Obj([action |-> "turn", angle |-> 90])),
                        Text(Obj([action |-> "set_telemetry",
                                  interval |-> 20])),
                        << SP, JUNK >> }, 1, MaxLines),
        tail \in { <<>>, << JO(Obj([action |-> "stop"])) >> } }

\* A user program of two tasks, each with a main loop that polls for
\* commands.
PeerInit ==
    \E st \in PeerStreams :
        Start(Registry(TRUE, TRUE, TRUE, {"left"}), LoopScript, st)

PeerNext ==
    \/ Arrive
    \/ UserPoll
    \/ \E raised \in BOOLEAN : Settle(raised)
    \/ PeerPoll
    \/ \E raised \in BOOLEAN : PeerSettle(raised)

PeerSpec == PeerInit /\ [][PeerNext]_vars

\* ------------------------------------------------------------ properties
SetMax(S) == CHOOSE x \in S : \A y \in S : y <= x
SetMin(S) == CHOOSE x \in S : \A y \in S : x <= y

IsPrefix(s, t) == Len(s) <= Len(t) /\ s = SubSeq(t, 1, Len(s))

\* The part of a text between its first and its last byte that is no blank.
Trimmed(s) ==
    LET nb == {i \in DOMAIN s : s[i].k # "sp"}
    IN  IF nb = {} THEN <<>> ELSE SubSeq(s, SetMin(nb), SetMax(nb))

\* The lines of a byte stream that a newline ends, in order.
NewlinesOf(bytes) == {i \in DOMAIN bytes : bytes[i].k = "nl"}

LineEndingAt(bytes, j) ==
    LET before == {i \in NewlinesOf(bytes) : i < j}
    IN  SubSeq(bytes, IF before = {} THEN 1 ELSE SetMax(before) + 1, j - 1)

TerminatedLines(bytes) ==
    LET nls == NewlinesOf(bytes)
        kth(k) == CHOOSE j \in nls : Cardinality({i \in nls : i < j}) = k - 1
    IN  [k \in 1..Cardinality(nls) |-> Trimmed(LineEndingAt(bytes, kth(k)))]

\* The trimmed lines of a byte stream that are not empty.
CommandLines(bytes) == SelectSeq(TerminatedLines(bytes), LAMBDA l : l # <<>>)

\* The lines dispatched so far.
DispatchedLines == [i \in DOMAIN dispatched |-> dispatched[i].line]

\* The lines a step dispatches.
NewlyDispatched ==
    SubSeq(dispatched', Len(dispatched) + 1, Len(dispatched'))

\* The motions among the hardware calls, with their stop behaviour.
IsMotion(c) == c.op \in {"straight", "turn", "arc", "curve"}

Motions(calls) ==
    LET ms == SelectSeq(calls, IsMotion)
    IN  [i \in DOMAIN ms |->
            [op |-> IF ms[i].op = "curve" THEN "arc" ELSE ms[i].op,
             then |-> ms[i].then]]

\* The motions a sequence of motion commands is to command: one for each
\* drive and turn and for each arc that gives its angle, the last element's
\* with HOLD and the others' with COAST_SMART.
CommandsMotion(d) ==
    \/ d.action \in {"drive", "turn"}
    \/ /\ d.action = "arc"
       /\ \/ "angle" \in DOMAIN d
          \/ {"startAngle", "endAngle"} \subseteq DOMAIN d

ExpectedMotions(l) ==
    LET idx == SelectSeq([i \in DOMAIN l |-> i],
                         LAMBDA i : CommandsMotion(l[i].d))
    IN  [j \in DOMAIN idx |->
            [op |-> IF l[idx[j]].d.action = "drive" THEN "straight"
                    ELSE l[idx[j]].d.action,
             then |-> IF idx[j] = Len(l) THEN "HOLD" ELSE "COAST_SMART"]]

IsMotionSequence(v) ==
    /\ v.t = "list"
    /\ v.l # <<>>
    /\ \A i \in DOMAIN v.l :
          /\ v.l[i].t = "dict"
          /\ "action" \in DOMAIN v.l[i].d
          /\ v.l[i].d.action \in {"drive", "turn", "arc"}

\* The value of the first line dispatched.
FirstValue == ParseLine(dispatched[1].line).v

\* C1: with a drivebase registered, the motions commanded for a line that is
\* a list of drive, turn and arc commands are those of its elements in
\* order, each with COAST_SMART except the last element's, which has HOLD,
\* whatever stop_behavior the elements carry.
C1_SequenceStops ==
    (/\ _drivebase
     /\ Len(dispatched) = 1
     /\ dispatched[1].ok
     /\ IsMotionSequence(FirstValue))
    => /\ IsPrefix(Motions(hw), ExpectedMotions(FirstValue.l))
       /\ dispatched[1].done => Motions(hw) = ExpectedMotions(FirstValue.l)

\* C1 witness: a sequence of several motions has been executed to its end,
\* and its first and last elements carried a stop_behavior of their own.
C1_Witness ==
    /\ _drivebase
    /\ Len(dispatched) = 1
    /\ dispatched[1].ok
    /\ dispatched[1].done
    /\ IsMotionSequence(FirstValue)
    /\ Len(Motions(hw)) = MaxSeq
    /\ "stop_behavior" \in DOMAIN FirstValue.l[1].d
    /\ "stop_behavior" \in DOMAIN FirstValue.l[Len(FirstValue.l)].d

\* C2: the lines handed to the dispatcher, followed by those the suspended
\* call still holds, are the non-empty trimmed newline-terminated lines of
\* the bytes read, in order and once each; a line is dispatched only when
\* the dispatch of the one before it is over, and when the call has returned
\* every one of them has been dispatched to its end.
C2_LinesInOrder ==
    /\ DispatchedLines \o CommandLines(Joined(frame.lines))
          = CommandLines(consumed)
    /\ \A i \in 1..(Len(dispatched) - 1) : dispatched[i].done
    /\ pc = "user" =>
          /\ frame.lines = <<>>
          /\ \A i \in DOMAIN dispatched : dispatched[i].done

\* C2 witness: two lines of a stream that arrived in pieces, one of them
\* between blanks, have been dispatched, the second after a suspension.
C2_Witness ==
    /\ pc = "user"
    /\ Len(dispatched) = 2
    /\ dispatched[2].done
    /\ hw # <<>>
    /\ \E i \in DOMAIN consumed : consumed[i].k = "sp"
    /\ stream = <<>>


\* A call of process_commands made by the user's loop returns in this step.
PollReturns == pc' = "user" /\ (consumed' # consumed \/ pc = "user_await")

AllDone(log) == \A i \in DOMAIN log : log[i].done

\* C9: a poll that dispatches only lines that are no JSON text changes no
\* agent state and makes no hardware call; and no poll is stopped by a parse
\* failure or by an exception of a command: when it returns, all the input
\* there was has been read and every line of it has been dispatched to its
\* end, in order.
C9_BadLinesDropped ==
    [][ /\ (/\ pc = "user"
            /\ NewlyDispatched # <<>>
            /\ \A i \in DOMAIN NewlyDispatched : ~NewlyDispatched[i].ok)
           => UNCHANGED << agentVars, hw >>
        /\ PollReturns
           => /\ inq' = <<>>
              /\ AllDone(dispatched')
              /\ [i \in DOMAIN dispatched' |-> dispatched'[i].line]
                    = CommandLines(consumed')
      ]_vars

\* C9 witness: a line that is no JSON text was dropped, the line after it was
\* dispatched, the hardware call of that one raised, and the poll returned.
C9_Witness ==
    /\ pc = "user"
    /\ Len(dispatched) = 2
    /\ ~dispatched[1].ok
    /\ dispatched[2].ok
    /\ dispatched[2].done
    /\ Len(hw) = 2
    /\ hw[2].op = "raised"
    /\ inq = <<>>

\* The command needs a drivebase and none is registered, or names a motor
\* that is not registered.
LacksHardware(d) ==
    \/ /\ Get(d, "action", "") \in {"drive", "turn", "arc", "turn_and_drive",
                                    "drive_continuous", "reset_drivebase"}
       /\ ~_drivebase
    \/ /\ Get(d, "action", "") = "motor"
       /\ MotorName(d) \notin _motors

ValueLacksHardware(v) ==
    \/ v.t = "dict" /\ LacksHardware(v.d)
    \/ /\ v.t = "list"
       /\ \A i \in DOMAIN v.l : v.l[i].t = "dict" /\ LacksHardware(v.l[i].d)

LineLacksHardware(e) == e.ok /\ ValueLacksHardware(ParseLine(e.line).v)

\* C10: a poll that dispatches only commands whose hardware is missing makes
\* no hardware call and changes no agent state; and a poll that dispatches
\* such a command goes on with what follows it: it returns with all the input
\* read and every line dispatched, or is suspended in a later command.
C10_MissingHardware ==
    [][ (/\ pc = "user"
         /\ \E i \in DOMAIN NewlyDispatched :
               LineLacksHardware(NewlyDispatched[i]))
        => /\ (\A i \in DOMAIN NewlyDispatched :
                  LineLacksHardware(NewlyDispatched[i]))
              => UNCHANGED << agentVars, hw >>
           /\ \/ pc' = "user_await"
              \/ /\ pc' = "user"
                 /\ inq' = <<>>
                 /\ AllDone(dispatched')
                 /\ [i \in DOMAIN dispatched' |-> dispatched'[i].line]
                       = CommandLines(consumed')
      ]_vars

\* C10 witness: with nothing registered, a drivebase command and the line
\* after it have been dispatched and no hardware call has been made.
C10_Witness ==
    /\ ~_drivebase
    /\ pc = "user"
    /\ Len(dispatched) = 2
    /\ LineLacksHardware(dispatched[1])
    /\ dispatched[2].ok
    /\ dispatched[2].done
    /\ hw = <<>>


\* The value of a dispatched line that is a command with this action.
IsCommand(e, action) ==
    /\ e.ok
    /\ ParseLine(e.line).v.t = "dict"
    /\ Get(ParseLine(e.line).v.d, "action", "") = action

\* The step dispatches a command with this action.
Dispatches(action) ==
    \E i \in DOMAIN NewlyDispatched : IsCommand(NewlyDispatched[i], action)

\* C3: the menu state becomes running only from state menu, in a turn of the
\* menu loop in which a run request was standing or was made (by run_selected
\* or by a button), and that turn leaves the request cleared; when the entry
\* point of a program is invoked the request is cleared, the state is running
\* and the program is the one at the current index.
C3_RunOnlyOnRequest ==
    [][ /\ (_menu_state' = "running" /\ _menu_state # "running")
           => /\ _menu_state = "menu"
              /\ pc \in {"loop", "menu_await"}
              /\ \/ _menu_run_requested
                 \/ Dispatches("run_selected")
                 \/ _menu_last_button_time' # _menu_last_button_time
              /\ ~_menu_run_requested'
        /\ launched' # launched
           => /\ launched' = Append(launched, launched'[Len(launched')])
              /\ _menu_state' = "running"
              /\ ~launched'[Len(launched')].runreq
              /\ ~_menu_run_requested'
              /\ launched'[Len(launched')].num =
                    _menu_programs[_menu_current_index' + 1].num
      ]_vars

\* C3 witness: the second program of the menu has been started, its entry
\* point is running and the request is cleared.
C3_Witness ==
    /\ pc = "prog"
    /\ _menu_state = "running"
    /\ Len(launched) = 1
    /\ launched[1].index = 1
    /\ _menu_current_index = 1
    /\ ~_menu_run_requested

MenuLoopPcs == {"loop", "menu_await", "beep", "prog", "prog_await", "wait"}

\* C4: when the entry point of a started program returns or raises, the menu
\* state is menu again and the index is the index at the launch plus one,
\* modulo the number of programs; the menu stays active and the menu loop,
\* once entered, is never left.
C4_RunEndsInMenu ==
    [][ /\ (run'.ended /\ ~run.ended)
           => /\ _menu_state' = "menu"
              /\ _menu_current_index' =
                    (launched[Len(launched)].index + 1) % Len(_menu_programs)
              /\ _menu_active'
              /\ pc' = "wait"
        /\ pc \in MenuLoopPcs => pc' \in MenuLoopPcs
      ]_vars

\* C4 witness: the last program of the menu was started, its entry point
\* raised, and the menu is back in state menu at the first program.
C4_Witness ==
    /\ run.ended
    /\ run.raised
    /\ run.index = Len(_menu_programs) - 1
    /\ _menu_state = "menu"
    /\ _menu_current_index = 0
    /\ pc = "wait"

\* C5: with the menu active, a poll whose last dispatched line is
\* select_program for the number of a registered program, and which starts no
\* program, leaves the index at that program's position and the status line
\* reporting that program as selected.
C5_SelectMovesHighlight ==
    [][ (/\ _menu_active
         /\ NewlyDispatched # <<>>
         /\ IsCommand(NewlyDispatched[Len(NewlyDispatched)], "select_program")
         /\ FindProgram(2, 1) # 0
         /\ _menu_state' = _menu_state)
        => /\ _menu_current_index' = FindProgram(2, 1) - 1
           /\ status'.selected = 2
      ]_vars

\* C6: a step that dispatches run_selected while the menu is inactive or the
\* state is running changes none of state, index and run request; one that
\* dispatches it while the menu is active in state menu leaves the request
\* set, or has consumed it by starting the program.
C6_RunSelectedGuard ==
    [][ Dispatches("run_selected")
        => /\ (~_menu_active \/ _menu_state = "running")
              => UNCHANGED << _menu_state, _menu_current_index,
                              _menu_run_requested >>
           /\ (_menu_active /\ _menu_state = "menu")
              => (_menu_run_requested' \/ _menu_state' = "running")
      ]_vars

\* C6 witness: run_selected has been dispatched while the menu was not
\* initialised, and no request stands.
C6_Witness ==
    /\ ~_menu_active
    /\ pc = "user"
    /\ dispatched # <<>>
    /\ IsCommand(dispatched[Len(dispatched)], "run_selected")
    /\ dispatched[Len(dispatched)].done
    /\ ~_menu_run_requested
    /\ _menu_state = "idle"


Distance(a, b) == IF a >= b THEN a - b ELSE b - a

\* C7 as stated: two records emitted one after the other have timestamps at
\* least as far apart as the interval in effect when the later one is
\* emitted.
C7_SpacingAtEmission ==
    \A k \in 2..Len(emitted) :
        Distance(emitted[k].ts, emitted[k - 1].ts) >= emitted[k].out

\* C7, amended: any two emitted records have timestamps at least as far apart
\* as the interval that was in effect when the later of the two timestamps
\* was taken, whatever the order the tasks print them in; and that interval
\* is at least the minimum.
C7_SpacingAtStamp ==
    \A j, k \in DOMAIN emitted :
        (j # k /\ emitted[k].ts >= emitted[j].ts)
        => /\ emitted[k].ts - emitted[j].ts >= emitted[k].iv
           /\ emitted[k].iv >= MinIntervalMs

\* C7 witness: two tasks were in send_telemetry at once, the interval was
\* changed between their two tests of it, and they printed their records
\* against the order of the timestamps.
C7_Witness ==
    /\ Len(emitted) = 2
    /\ emitted[1].ts > emitted[2].ts
    /\ emitted[1].iv = MinIntervalMs
    /\ emitted[2].iv = DefaultIntervalMs

HasLine(bytes) == \E i \in DOMAIN bytes : bytes[i].k = "nl"

AfterLastNewline(bytes) ==
    IF NewlinesOf(bytes) = {} THEN bytes
    ELSE SubSeq(bytes, SetMax(NewlinesOf(bytes)) + 1, Len(bytes))

\* C11: whenever process_commands has returned or is suspended in a dispatch,
\* the command buffer is the bytes consumed since the last consumed newline,
\* so it holds no newline; and only lines whose newline has been consumed
\* have been dispatched.
C11_BufferIsPending ==
    /\ _command_buffer = AfterLastNewline(consumed)
    /\ ~HasLine(_command_buffer)
    /\ IsPrefix(DispatchedLines, CommandLines(consumed))

\* C11 witness: two lines have been dispatched and the bytes of a third,
\* which no newline ends yet, are all consumed and wait in the buffer.
C11_Witness ==
    /\ pc = "user"
    /\ Len(dispatched) = 2
    /\ AllDone(dispatched)
    /\ stream = <<>>
    /\ inq = <<>>
    /\ _command_buffer # <<>>
    /\ _command_buffer = AfterLastNewline(consumed)

\* C12: one call of process_commands, over all the steps it takes, consumes
\* at most max_bytes_per_call bytes, takes them from the front of the input in
\* order and leaves the others there; it returns only with the budget used
\* up, with no byte available, or at a read that raised.
C12_ReadBudget ==
    [][ stream' = stream
        => LET before == IF pc = "user" THEN 0 ELSE frame.bytes_read
               delta == Len(consumed') - Len(consumed)
               rest == SubSeq(inq, delta + 1, Len(inq))
               failed == rest # <<>> /\ Head(rest).k = "err"
           IN  /\ delta >= 0
               /\ delta <= Len(inq)
               /\ before + delta <= max_bytes_per_call
               /\ consumed' = consumed \o SubSeq(inq, 1, delta)
               /\ \/ inq' = rest
                  \/ failed /\ inq' = Tail(rest) /\ pc' = "user"
               /\ pc' = "user_await" => frame'.bytes_read = before + delta
               /\ (pc' = "user" /\ inq' = rest)
                  => (before + delta = max_bytes_per_call \/ rest = <<>>)
      ]_vars

\* C12 witness: a call in which a line was dispatched has used up the budget
\* and returned, and bytes are left on the input.
C12_Witness ==
    /\ pc = "user"
    /\ Len(consumed) = max_bytes_per_call
    /\ Len(dispatched) = 1
    /\ dispatched[1].done
    /\ inq # <<>>
    /\ stream = <<>>

\* C13: once the menu is initialised with a list that is not empty, the index
\* is a position of the list, whatever buttons, commands, program runs and
\* further initialisations come.
C13_IndexInRange ==
    (_menu_active /\ _menu_programs # <<>>)
    => (0 <= _menu_current_index /\ _menu_current_index < Len(_menu_programs))

\* C13 witness: the program at the last position of a list of three is
\* running and the menu has been initialised again with a list of two.
C13_Witness ==
    /\ pc = "prog"
    /\ run.index = 2
    /\ Len(script.programs) = 3
    /\ Len(_menu_programs) = 2
    /\ _menu_current_index = 0
    /\ _menu_state = "menu"

\* _process_menu_buttons gets as far as reading the buttons.
ButtonsRead ==
    /\ _hub
    /\ _menu_active
    /\ _menu_state = "menu"
    /\ _menu_programs # <<>>
    /\ ~(now - _menu_last_button_time < _menu_button_debounce_ms)

\* A step in which a LEFT or RIGHT press was accepted and moved the index.
IndexMoved ==
    /\ _menu_last_button_time' # _menu_last_button_time
    /\ _menu_current_index' # _menu_current_index

\* C14: in state menu, on a hub, with k programs, a press that is accepted
\* moves the index to (index - 1) mod k when LEFT is down and to
\* (index + 1) mod k when RIGHT is down and LEFT is not, and leaves the run
\* request alone; the step of the menu loop that moves the index so changes
\* neither the menu state nor the run request.
C14_ButtonsMoveIndex ==
    /\ [](ButtonsRead =>
            \A pressed \in SUBSET Buttons :
                LET b == _process_menu_buttons(pressed)
                    k == Len(_menu_programs)
                IN  /\ "LEFT" \in pressed
                       => /\ b.index = (_menu_current_index + k - 1) % k
                          /\ b.runreq = _menu_run_requested
                    /\ ("RIGHT" \in pressed /\ "LEFT" \notin pressed)
                       => /\ b.index = (_menu_current_index + 1) % k
                          /\ b.runreq = _menu_run_requested)
    /\ [][ IndexMoved
           => /\ _menu_state' = _menu_state
              /\ _menu_run_requested' = _menu_run_requested
              /\ _menu_current_index' \in
                    { (_menu_current_index + 1) % Len(_menu_programs),
                      (_menu_current_index + Len(_menu_programs) - 1)
                         % Len(_menu_programs) }
         ]_vars

\* C14 witness: with three programs and no program ever started, three
\* presses have been accepted and the index is back at the first program,
\* which the display shows.
C14_Witness ==
    /\ Len(_menu_programs) = 3
    /\ launched = <<>>
    /\ ~_menu_run_requested
    /\ _menu_last_button_time = 3 * _menu_button_debounce_ms
    /\ _menu_current_index = 0
    /\ display = _menu_programs[1].num

\* C15: a button event is accepted only when at least the debounce window
\* has passed since the last accepted one, and it takes the time of the
\* turn as the new timestamp; buttons read inside the window change neither
\* the index, the run request nor the timestamp.
C15_Debounce ==
    /\ [][ _menu_last_button_time' # _menu_last_button_time
           => /\ _menu_last_button_time' = now
              /\ now - _menu_last_button_time >= _menu_button_debounce_ms
         ]_vars
    /\ [](now - _menu_last_button_time < _menu_button_debounce_ms
          => \A pressed \in SUBSET Buttons :
                LET b == _process_menu_buttons(pressed)
                IN  /\ b.index = _menu_current_index
                    /\ b.runreq = _menu_run_requested
                    /\ b.time = _menu_last_button_time)
    /\ [][ (pc = "loop"
            /\ now - _menu_last_button_time < _menu_button_debounce_ms)
           => UNCHANGED << _menu_current_index, _menu_run_requested,
                           _menu_last_button_time >>
         ]_vars

\* C15 witness: with three programs, a CENTER press was accepted and started
\* the first program, a LEFT or RIGHT press was accepted a debounce window
\* later, and the menu loop is about to read the buttons inside the window
\* of that one.
C15_Witness ==
    /\ pc = "loop"
    /\ _menu_state = "menu"
    /\ Len(_menu_programs) = 3
    /\ Len(launched) = 1
    /\ launched[1].index = 0
    /\ _menu_current_index # 1
    /\ _menu_last_button_time = 2 * _menu_button_debounce_ms
    /\ now > _menu_last_button_time
    /\ now - _menu_last_button_time < _menu_button_debounce_ms

\* C16: when init_hub_menu has returned, the menu state is menu, the index
\* is 0 and, on a hub and with a list that is not empty, the display shows
\* the num of the first program of the list.
C16_InitShowsFirst ==
    (pc = "user" /\ _menu_active)
    => /\ _menu_state = "menu"
       /\ _menu_current_index = 0
       /\ (_hub /\ _menu_programs # <<>>)
          => display = _menu_programs[1].num

\* The command of the first dispatched line.
FirstCommand == ParseLine(dispatched[1].line).v.d

\* C17: the motion a single drive, turn, arc or turn_and_drive command ends
\* with is given COAST_SMART for coast_smart, smart and coast-smart, COAST
\* for coast, BRAKE for brake and HOLD for any other stop_behavior and for
\* none.
C17_StopResolution ==
    \A i \in DOMAIN hw :
        (/\ IsMotion(hw[i])
         /\ ~(FirstCommand.action = "turn_and_drive" /\ hw[i].op = "turn"))
        => hw[i].then =
              _resolve_stop_behavior(Get(FirstCommand, "stop_behavior", ""))

\* C18: the angle an arc command given by startAngle and endAngle hands to
\* the drivebase is endAngle - startAngle moved by multiples of 360 into
\* (-180, 180].
C18_ArcSweepRange ==
    \A i \in DOMAIN hw :
        hw[i].op \in {"arc", "curve"}
        => /\ hw[i].b > -180
           /\ hw[i].b <= 180
           /\ (hw[i].b - (FirstCommand.endAngle - FirstCommand.startAngle))
                 % 360 = 0

\* The angles _normalize_heading can be given now: what the gyro reads,
\* less any reference within one full turn.
HeadingRange == { gyro_angle - r : r \in 0..359 }

\* C19: for every angle x of the range, _normalize_heading(x) lies in
\* (-180, 180], differs from x by a multiple of 360, and is left as it is by
\* _normalize_heading.
C19_NormalizeClosed ==
    \A x \in HeadingRange :
        LET y == _normalize_heading(<< x >>)
        IN  /\ y # None
            /\ y[1] > -180
            /\ y[1] <= 180
            /\ (y[1] - x) % 360 = 0
            /\ _normalize_heading(y) = y

\* C19 witness: get_relative_heading has normalised an angle below -180 that
\* is an odd multiple of 180, to 180.
C19_Witness ==
    /\ relative_heading.called
    /\ relative_heading.raw # None
    /\ relative_heading.reference # None
    /\ relative_heading.raw[1] - relative_heading.reference[1] = -MaxAngle
    /\ relative_heading.value = << 180 >>

\* The angle of (-180, 180] that differs from x by a multiple of 360.
Norm180(x) == CHOOSE y \in (-179)..180 : (x - y) % 360 = 0

\* C20: get_relative_heading returns none when no gyro is registered or the
\* read fails; else, with the gyro reading r1, normalize(r1) when there is no
\* reference and normalize(r1 - r0) when the reference is r0; the reference
\* is changed only to the reading of the moment, by a reset, or cleared,
\* and without a gyro there is none.
C20_RelativeHeading ==
    /\ [][ relative_heading' # relative_heading
           => LET h == relative_heading'
                  r0 == _pseudo_heading_reference
              IN  /\ h.raw \in { None, << gyro_angle >> }
                  /\ _gyro_sensor = "none" => h.raw = None
                  /\ h.raw = None => h.value = None
                  /\ (h.raw # None /\ r0 = None)
                     => h.value = << Norm180(gyro_angle) >>
                  /\ (h.raw # None /\ r0 # None)
                     => h.value = << Norm180(gyro_angle - r0[1]) >>
         ]_vars
    /\ [][ _pseudo_heading_reference' # _pseudo_heading_reference
           => _pseudo_heading_reference' \in { None, << gyro_angle >> }
         ]_vars
    /\ [](_gyro_sensor = "none" => _pseudo_heading_reference = None)

\* C20 witness: the reference was taken at a reading that is not 0 and
\* get_relative_heading, at a later reading, returned another angle than
\* the normalised reading.
C20_Witness ==
    /\ relative_heading.called
    /\ relative_heading.raw # None
    /\ relative_heading.reference # None
    /\ relative_heading.reference = _pseudo_heading_reference
    /\ relative_heading.reference[1] # 0
    /\ relative_heading.raw # relative_heading.reference
    /\ relative_heading.value # _normalize_heading(relative_heading.raw)

\* The command of a dispatched line.
CommandOf(e) == ParseLine(e.line).v.d

\* C21: the telemetry interval is never below the minimum, whatever
\* set_telemetry commands are dispatched and whatever set_telemetry_interval
\* is called with: negative, zero, below the minimum, or no interval at all.
C21_IntervalFloor == _telemetry_interval_ms >= MinIntervalMs

\* C21 witness: a set_telemetry command raised the interval, a second one
\* asked for a negative interval, and the interval is the minimum.
C21_Witness ==
    /\ pc = "user"
    /\ Len(dispatched) = 2
    /\ AllDone(dispatched)
    /\ Get(CommandOf(dispatched[1]), "interval", 0) = 150
    /\ Get(CommandOf(dispatched[2]), "interval", 0) = -20
    /\ _telemetry_interval_ms = MinIntervalMs

\* C29: a poll that dispatches one set_telemetry command changes only what
\* the command carries: with no enabled in it the telemetry flag stays as it
\* was, with no interval in it the interval stays as it was.
C29_OnlyWhatItCarries ==
    [][ (/\ Len(NewlyDispatched) = 1
         /\ IsCommand(NewlyDispatched[1], "set_telemetry"))
        => LET cmd == CommandOf(NewlyDispatched[1])
           IN  /\ ~Has(cmd, "enabled")
                  => _telemetry_enabled' = _telemetry_enabled
               /\ ~Has(cmd, "interval")
                  => _telemetry_interval_ms' = _telemetry_interval_ms
      ]_vars

\* The keys of a record under a sub-record.
Under(data, prefix) == { p \in data : IsPrefix(prefix, p) }

\* The keys the record has when no read raises.
HealthyKeys(motors) ==
    { << "timestamp" >>, << "type" >> }
    \cup UNION { { << "motors", name, "angle" >>, << "motors", name, "speed" >>,
                   << "motors", name, "load" >> } : name \in motors }
    \cup { << "hub", "battery", "voltage" >>, << "hub", "battery", "current" >>,
           << "hub", "imu", "heading" >>, << "hub", "imu", "acceleration" >>,
           << "hub", "imu", "angular_velocity" >>, << "hub", "system", "name" >>,
           << "hub", "gyro", "angle" >>, << "hub", "gyro", "speed" >> }
    \cup { << "drivebase", "distance" >>, << "drivebase", "angle" >>,
           << "drivebase", "state" >> }

\* C22: in an emitted record, a read that raises takes away no sibling data:
\* with the battery read failing the IMU and system data of the hub are
\* there, with a motor failing the other motor's data are there and the
\* failing one has its error, with the drivebase failing it has its error
\* and motors, sensors and hub are as without a failure.
C22_FailureContained ==
    \A k \in DOMAIN emitted :
        LET data == emitted[k].data
            healthy == HealthyKeys(_motors)
        IN  /\ faults = {"battery"}
               => /\ Under(healthy, << "hub", "imu" >>) \subseteq data
                  /\ Under(healthy, << "hub", "system" >>) \subseteq data
            /\ \A name \in _motors :
                  faults = {name}
                  => /\ << "motors", name, "error" >> \in data
                     /\ healthy \ Under(healthy, << "motors", name >>)
                           \subseteq data
            /\ faults = {"drivebase"}
               => /\ << "drivebase", "error" >> \in data
                  /\ healthy \ Under(healthy, << "drivebase" >>) \subseteq data

\* The motion an element of a sequence is to command, by its arguments.
StepOf(d) ==
    [op |-> IF d.action = "drive" THEN "straight" ELSE d.action,
     a |-> IF d.action = "drive" THEN d.distance
           ELSE IF d.action = "turn" THEN d.angle
           ELSE Get(d, "radius", DefaultRadius),
     b |-> IF d.action # "arc" THEN 0
           ELSE IF "angle" \in DOMAIN d THEN d.angle
           ELSE Norm180(d.endAngle - d.startAngle)]

\* The motions the elements of a list are to command, in list order.
ExpectedSteps(l) ==
    LET idx == SelectSeq([i \in DOMAIN l |-> i],
                         LAMBDA i : CommandsMotion(l[i].d))
    IN  [j \in DOMAIN idx |-> StepOf(l[idx[j]].d)]

\* The motions among the hardware calls, by their arguments.
StepsTaken(calls) ==
    LET ms == SelectSeq(calls, IsMotion)
    IN  [i \in DOMAIN ms |->
            [op |-> IF ms[i].op = "curve" THEN "arc" ELSE ms[i].op,
             a |-> ms[i].a, b |-> ms[i].b]]

\* C23: with a drivebase, the motions commanded for a sequence of motion
\* commands are those of its elements in list order, none twice and none
\* left out once the sequence is over; a step commands at most one motion,
\* and a motion after the first is commanded in the step in which the call
\* is resumed from the motion before it.
C23_StepsInOrder ==
    /\ [](/\ _drivebase
          /\ Len(dispatched) = 1
          /\ dispatched[1].ok
          /\ IsMotionSequence(FirstValue)
          => /\ IsPrefix(StepsTaken(hw), ExpectedSteps(FirstValue.l))
             /\ dispatched[1].done
                => StepsTaken(hw) = ExpectedSteps(FirstValue.l)
             /\ pc = "user_await" => ~dispatched[1].done)
    /\ [][ LET before == Len(StepsTaken(hw))
               after == Len(StepsTaken(hw'))
           IN  /\ after <= before + 1
               /\ (after = before + 1 /\ before > 0) => pc = "user_await"
               /\ after = before + 1 => pc' = "user_await"
         ]_vars

\* C23 witness: a sequence of MaxSeq motions of three kinds has been executed
\* to its end, one motion after the other, with no call raising.
C23_Witness ==
    /\ _drivebase
    /\ pc = "user"
    /\ Len(dispatched) = 1
    /\ dispatched[1].done
    /\ IsMotionSequence(FirstValue)
    /\ Len(StepsTaken(hw)) = MaxSeq
    /\ StepsTaken(hw)[1].op # StepsTaken(hw)[MaxSeq].op
    /\ \A i \in DOMAIN hw : hw[i].op # "raised"

\* C24: with a drivebase, when a list whose last element is a drive has been
\* executed, that drive has been commanded, whatever the element before it
\* is: one whose call raises, an unknown action, a motor that is not
\* registered, or a value that is no JSON object.
C24_RestOfSequenceRuns ==
    (/\ _drivebase
     /\ Len(dispatched) = 1
     /\ dispatched[1].ok
     /\ dispatched[1].done
     /\ FirstValue.t = "list")
    => \E i \in DOMAIN hw :
          /\ hw[i].op = "straight"
          /\ hw[i].a = FirstValue.l[Len(FirstValue.l)].d.distance

\* The hardware calls made, without the marks of the calls that raised.
CallsMade == SelectSeq(hw, LAMBDA c : c.op # "raised")

\* The device a stop command is to stop, or none.
StopTarget(d) ==
    IF "motor" \in DOMAIN d /\ d.motor \in _motors THEN << d.motor >>
    ELSE IF _drivebase THEN << "drivebase" >>
    ELSE <<>>

\* C27: a stop command makes exactly one hardware call, stop, on the motor it
\* names when that motor is registered, else on the drivebase when one is
\* registered, and none otherwise.
C27_StopsOneTarget ==
    (/\ Len(dispatched) = 1
     /\ IsCommand(dispatched[1], "stop"))
    => LET target == StopTarget(FirstCommand)
       IN  /\ Len(CallsMade) = Len(target)
           /\ \A i \in DOMAIN CallsMade :
                 CallsMade[i].dev = target[i] /\ CallsMade[i].op = "stop"
           /\ pc = "user" => dispatched[1].done

\* C27 witness: a stop that names a motor that is not registered has stopped
\* the drivebase.
C27_Witness ==
    /\ pc = "user"
    /\ Len(dispatched) = 1
    /\ IsCommand(dispatched[1], "stop")
    /\ "motor" \in DOMAIN FirstCommand
    /\ FirstCommand.motor \notin _motors
    /\ _drivebase
    /\ Len(hw) = 1
    /\ hw[1].dev = "drivebase"

\* The Stop parameter of the stop behaviours on which every conversion of the
\* program agrees.
StopNamed(s) ==
    CASE s = "coast_smart" -> "COAST_SMART"
      [] s = "coast" -> "COAST"
      [] s = "brake" -> "BRAKE"
      [] s = "hold" -> "HOLD"

\* The motions a turn_and_drive command is to command: the turn when its
\* angle is not 0, with COAST_SMART, then the drive when its distance is not
\* 0, with the command's own stop behaviour.
TurnThenDrive(d) ==
    (IF Get(d, "angle", 0) # 0
     THEN << [op |-> "turn", a |-> d.angle, then |-> "COAST_SMART"] >>
     ELSE <<>>)
    \o
    (IF Get(d, "distance", 0) # 0
     THEN << [op |-> "straight", a |-> d.distance,
              then |-> StopNamed(Get(d, "stop_behavior", "hold"))] >>
     ELSE <<>>)

\* The motions among the hardware calls, with argument and stop behaviour.
MotionsMade ==
    LET ms == SelectSeq(hw, IsMotion)
    IN  [i \in DOMAIN ms |->
            [op |-> ms[i].op, a |-> ms[i].a, then |-> ms[i].then]]

\* C28: with a drivebase, the motions of a turn_and_drive command are the
\* turn with COAST_SMART, when the angle is not 0, and then the drive with
\* the command's stop behaviour, when the distance is not 0; a step commands
\* at most one of them, the drive in the step in which the call is resumed
\* from the turn; with both 0 no motion is commanded.  When a call raises
\* the command ends there.
C28_TurnThenDrive ==
    /\ [](/\ _drivebase
          /\ Len(dispatched) = 1
          /\ IsCommand(dispatched[1], "turn_and_drive")
          => /\ IsPrefix(MotionsMade, TurnThenDrive(FirstCommand))
             /\ (dispatched[1].done /\ CallsMade = hw)
                => MotionsMade = TurnThenDrive(FirstCommand))
    /\ [][ (/\ Len(dispatched') = 1
            /\ IsCommand(dispatched'[1], "turn_and_drive"))
           => /\ Len(MotionsMade') <= Len(MotionsMade) + 1
              /\ Len(MotionsMade') = 2 /\ Len(MotionsMade) = 1
                 => pc = "user_await" /\ hw[Len(hw)].op = "turn"
         ]_vars

\* C28 witness: a turn_and_drive with a turn, a drive and a stop behaviour of
\* its own has been executed to its end.
C28_Witness ==
    /\ _drivebase
    /\ pc = "user"
    /\ Len(dispatched) = 1
    /\ IsCommand(dispatched[1], "turn_and_drive")
    /\ dispatched[1].done
    /\ CallsMade = hw
    /\ Len(MotionsMade) = 2
    /\ MotionsMade[1].then = "COAST_SMART"
    /\ MotionsMade[2].then = "BRAKE"

\* C30: with a drivebase, when a turn_and_drive command has been executed
\* with no call raising, the last motion it commanded, the turn when the
\* distance is 0, has the command's stop behaviour, HOLD when it gives none.
C30_LastMotionStop ==
    (/\ _drivebase
     /\ Len(dispatched) = 1
     /\ IsCommand(dispatched[1], "turn_and_drive")
     /\ dispatched[1].done
     /\ CallsMade = hw
     /\ MotionsMade # <<>>)
    => MotionsMade[Len(MotionsMade)].then =
          StopNamed(Get(FirstCommand, "stop_behavior", "hold"))

Abs(x) == IF x >= 0 THEN x ELSE -x

\* The angle of (-180, 180] that differs from x by a multiple of 360, by
\* arithmetic.
Wrap180(x) == ((x + 179) % 360) - 179

\* The turns among some hardware calls.
TurnsIn(calls) == SelectSeq(calls, LAMBDA c : c.op = "turn")

\* A call of turn_to_heading begins in this step, and every read it makes
\* of the gyro succeeds.
ReadableCall ==
    /\ turning'.calls = turning.calls + 1
    /\ turning'.readable
    /\ _pseudo_heading_reference' # None

\* C25: a call of turn_to_heading whose reads of the gyro succeed takes the
\* reading as reference when there is none, and with delta the normalised
\* difference of the target and the relative heading it commands one turn,
\* by delta, when |delta| is above the tolerance, and none otherwise; delta
\* is at most 180 either way; no call commands more than one turn.
C25_TurnIffBeyondTolerance ==
    /\ [][ ReadableCall
           => LET reference ==
                     IF _pseudo_heading_reference = None THEN gyro_angle
                     ELSE _pseudo_heading_reference[1]
                  delta == Wrap180(turning'.target
                                   - Wrap180(gyro_angle - reference))
                  turns == TurnsIn(SubSeq(hw', Len(hw) + 1, Len(hw')))
              IN  /\ _pseudo_heading_reference' = << reference >>
                  /\ Abs(delta) <= 180
                  /\ IF Abs(delta) > turning'.tolerance
                     THEN /\ Len(turns) = 1
                          /\ turns[1].a = delta
                          /\ turning'.at = "turn"
                     ELSE /\ turns = <<>>
                          /\ turning'.at = "done"
         ]_vars
    /\ [](Len(TurnsIn(hw)) <= turning.calls)

\* C25 witness: with no reference and the gyro not at 0, a call for the
\* heading 270 has taken the reading as reference and commanded the turn
\* -90.
C25_Witness ==
    /\ turning.at = "turn"
    /\ turning.readable
    /\ turning.target = 270
    /\ turning.delta = << -90 >>
    /\ gyro_angle # 0
    /\ _pseudo_heading_reference = << gyro_angle >>
    /\ Len(TurnsIn(hw)) = 1

\* A call of turn_to_heading returns in this step.
TurnReturns ==
    /\ turning'.at = "done"
    /\ turning.at = "turn" \/ turning'.calls = turning.calls + 1

\* C26: when a call of turn_to_heading that could read the gyro returns,
\* the gyro having changed by exactly the turn commanded, the normalised
\* difference of the target and the relative heading is within the
\* tolerance, and is 0 when a turn was commanded.
C26_ReachesHeading ==
    [][ (TurnReturns /\ turning'.readable /\ turning'.exact)
        => LET final == IF _pseudo_heading_reference' = None
                        THEN Wrap180(gyro_angle')
                        ELSE Wrap180(gyro_angle'
                                     - _pseudo_heading_reference'[1])
               off == Wrap180(turning'.target - final)
           IN  /\ Abs(off) <= turning'.tolerance
               /\ turning'.delta # None => off = 0
      ]_vars

\* C26 witness: from a relative heading of 180, taken against a reference
\* stored before, a call for the heading 170 has turned by -10 and returned,
\* and the relative heading read after the turn is 170.
C26_Witness ==
    /\ turning.at = "done"
    /\ turning.readable
    /\ turning.exact
    /\ turning.target = 170
    /\ turning.delta = << -10 >>
    /\ _pseudo_heading_reference # None
    /\ _pseudo_heading_reference # << 0 >>
    /\ relative_heading.value = << 170 >>

\* C31: a run request is not carried over a program run. With the whole
\* input sent before the menu loop starts and CENTER never pressed, nothing
\* asks for a run after the first program has finished, so two run_selected
\* lines sent back to back launch one program and no more.
C31_NoCarriedRun == Len(launched) <= 1

\* C32: whenever the menu is in state menu and a hub is registered, the hub
\* display shows the number of the program at _menu_current_index.
C32_DisplayShowsCurrent ==
    (_menu_active /\ _menu_state = "menu" /\ _hub /\ _menu_programs # <<>>)
    => display = Selected(_menu_programs, _menu_current_index).num

\* C33: with two tasks calling process_commands on the shared buffer, one
\* polling while the other is suspended in a dispatch, the lines handed to
\* the dispatcher are the non-empty trimmed newline-terminated lines of the
\* bytes read, in the order of their arrival and once each, none made of
\* bytes of two lines; neither task holds a line back, and the buffer holds
\* the bytes read after the last newline.
C33_SharedBufferLines ==
    /\ DispatchedLines = CommandLines(consumed)
    /\ frame.lines = <<>>
    /\ peer.frame.lines = <<>>
    /\ _command_buffer = AfterLastNewline(consumed)

\* C33 witness: both tasks are suspended, each in the dispatch of a line of
\* its own, the second line having been begun while the first was under way;
\* the bytes of the unfinished line that follows have not been read.
C33_Witness ==
    /\ pc = "user_await"
    /\ peer.pc = "await"
    /\ Len(dispatched) = 2
    /\ dispatched[1].line # dispatched[2].line
    /\ Len(hw) >= 2
    /\ inq # <<>>
    /\ stream = <<>>

====
